---- MODULE Spec2Model ----
(***************************************************************************)
(* AgentBrowser: the host-bridge correlators (native host, MCP server,     *)
(* MCP server v2) and the length-prefixed wire codec, as state machines.   *)
(*                                                                         *)
(* The module holds several specifications over one set of variables:      *)
(*   Spec      the three request/response correlators, one per run         *)
(*             (sys chooses which process is running);                     *)
(*   FairSpec  Spec with the event loop's fairness (timers fire);          *)
(*   SpecWire  the byte-level decoders and the v2 socket link;             *)
(*   SpecTabs  BrowserManager's tabs and frames under executeCommand;      *)
(*   SpecFrames  the page and frame commands with the commands that act    *)
(*             on an element;                                              *)
(*   SpecRefs  the page: element refs of the snapshot engine and of the    *)
(*             content script (script chooses which one is running);       *)
(*   SpecText  functions on their own: compactTree, parseRef,              *)
(*             parseCommand, the v2 background worker's tab requests;      *)
(*   SpecServer  the v2 native host's socket server;                       *)
(*   SpecOverlap  manager calls of several connections, step by step;      *)
(*   SpecDialog  the dialog handler and the tab commands;                  *)
(*   SpecLoop  the native host's main loop and the end of its stdin.       *)
(* Each specification keeps the other group's variables at their idle      *)
(* values.                                                                 *)
(***************************************************************************)
EXTENDS Integers, Sequences, FiniteSets, TLC

(***************************************************************************)
(* Bounds of the model.                                                    *)
(***************************************************************************)
MaxReq == 3
MaxCmds == 2
MaxPeers == 2
MaxTime == 60000
TickMs == 30000
MaxMsgs == 2
MaxChunk == 34
MaxPages == 3
MaxContexts == 2
MaxIndex == 2
\* resolveRef, getElement and the actions are asked for the refs e1 .. eMaxRef
MaxRef == 3
\* options.maxDepth is undefined or one of 0 .. MaxDepthArg
MaxDepthArg == 1
\* compactTree is given trees of up to MaxLines lines
MaxLines == 3
MaxTabs == 2
MaxConns == 2
MaxHandlers == 3

(***************************************************************************)
(* Program constants.                                                      *)
(***************************************************************************)
\* setTimeout(..., 30000) in sendToExtension
ExtensionTimeoutMs == 30000
\* setTimeout(..., 30000) in NativeHostConnection.sendToHost
HostTimeoutMs == 30000
\* setTimeout(..., 30000) in sendCommand (MCP server v2)
CommandTimeoutMs == 30000

\* the ceiling on a frame's declared length: 1024 * 1024 * 10 in readMessage
Ceiling == 10485760

\* "no id": a message without an id field, an id that matches nothing
NoId == 1 - 1
\* an id no request of this run was given
UnknownId == 90 + 9
\* ids chosen by the client on stdin are disjoint from the host's randomUUID()s
CmdIdBase == 100 + 0

Min(a, b) == IF a < b THEN a ELSE b

(***************************************************************************)
(* Bytes, UTF-8 and the JSON text of a message.                            *)
(* A string is a sequence of UTF-16 code units (all in the BMP here), a    *)
(* buffer a sequence of bytes.                                             *)
(***************************************************************************)

\* Buffer.writeUInt32LE(n, 0) on a 4-byte buffer
writeUInt32LE(n) ==
  << n % 256, (n \div 256) % 256, (n \div 65536) % 256, (n \div 16777216) % 256 >>

\* Buffer.readUInt32LE(0).  The values from 2^31 on are all represented by 2^31 - 1:
\* they are beyond every buffer length and beyond the ceiling, which is all the
\* decoders compare a length with.
readUInt32LE(b) ==
  IF b[4] >= 128 THEN 2147483647
  ELSE b[1] + 256 * b[2] + 65536 * b[3] + 16777216 * b[4]

\* the UTF-8 bytes of one code unit
Utf8Char(c) ==
  IF c < 128 THEN << c >>
  ELSE IF c < 2048 THEN << 192 + (c \div 64), 128 + (c % 64) >>
  ELSE << 224 + (c \div 4096), 128 + ((c \div 64) % 64), 128 + (c % 64) >>

\* Buffer.from(str, 'utf8') / buffer.write(str, 4, 'utf8')
RECURSIVE Utf8Encode(_)
Utf8Encode(s) ==
  IF s = << >> THEN << >> ELSE Utf8Char(Head(s)) \o Utf8Encode(Tail(s))

\* Buffer.byteLength(str, 'utf8')
byteLength(s) == Len(Utf8Encode(s))

IsCont(b) == b >= 128 /\ b < 192

\* buffer.toString('utf8'): malformed input decodes to U+FFFD
RECURSIVE toStringUtf8(_)
toStringUtf8(b) ==
  IF b = << >> THEN << >>
  ELSE IF b[1] < 128 THEN << b[1] >> \o toStringUtf8(Tail(b))
  ELSE IF b[1] >= 194 /\ b[1] < 224 /\ Len(b) >= 2 /\ IsCont(b[2])
    THEN << (b[1] - 192) * 64 + (b[2] - 128) >> \o toStringUtf8(SubSeq(b, 3, Len(b)))
  ELSE IF b[1] >= 224 /\ b[1] < 240 /\ Len(b) >= 3 /\ IsCont(b[2]) /\ IsCont(b[3])
    THEN << (b[1] - 224) * 4096 + (b[2] - 128) * 64 + (b[3] - 128) >>
           \o toStringUtf8(SubSeq(b, 4, Len(b)))
  ELSE << 65533 >> \o toStringUtf8(Tail(b))

\* the texts a command may carry: "a", "é" (2 bytes in UTF-8)
Texts == { << 97 >>, << 233 >> }

\* a message: an optional id (NoId: none) and a text field
Msg(i, t) == [id |-> i, text |-> t]

KeyId == << 34, 105, 100, 34, 58 >>
KeyText == << 34, 116, 101, 120, 116, 34, 58 >>

\* JSON.stringify(msg): {"id":D,"text":"T"}, or {"text":"T"} for a message with no id
JSONstringify(m) ==
  << 123 >>
    \o (IF m.id = NoId THEN << >> ELSE KeyId \o << 48 + m.id, 44 >>)
    \o KeyText \o << 34 >> \o m.text \o << 34, 125 >>

ParseError == [ok |-> FALSE]

\* JSON.parse(str) on the shapes above; anything else throws
JSONparse(s) ==
  LET n == Len(s)
      hasId == n >= 8 /\ SubSeq(s, 2, 6) = KeyId /\ s[7] >= 49 /\ s[7] <= 57 /\ s[8] = 44
      from == IF hasId THEN 9 ELSE 2
      body == SubSeq(s, from + 8, n - 2)
  IN IF /\ n >= from + 9
        /\ s[1] = 123
        /\ SubSeq(s, from, from + 6) = KeyText
        /\ s[from + 7] = 34
        /\ s[n - 1] = 34
        /\ s[n] = 125
        /\ \A k \in 1..Len(body) : body[k] >= 32 /\ body[k] # 34 /\ body[k] # 92
     THEN [ok |-> TRUE, msg |-> Msg(IF hasId THEN s[7] - 48 ELSE NoId, body)]
     ELSE ParseError


(***************************************************************************)
(* State.                                                                  *)
(***************************************************************************)
VARIABLES
  \* -- the correlators ------------------------------------------------------
  sys,              \* which process this run is: "host", "mcp" or "v2"
  now,              \* the clock, in ms
  nextId,           \* the next fresh id (randomUUID() / ++messageId)
  pendingRequests,  \* the Map's keys, in insertion order
  timers,           \* the armed setTimeout()s: [id, set], set being the arming time
  settle,           \* per request, the calls made to its resolve / reject
  lastEvent,        \* the response the data handler decoded in the last step, if any
  extensionSocket,  \* native host: the current peer, or NoPeer (null)
  sock,             \* per accepted connection (host), spawned process (mcp) or
                    \* socket (v2): "none", "open", "destroyed" or "closed"
  messageQueue,     \* native host: messages waiting for a peer
  wire,             \* ids of the requests written: per peer (host); per host
                    \* process, those it has not answered yet (mcp); on the socket (v2)
  lastWrite,        \* native host: the frames the last step wrote to a peer
  hostPc,           \* native host: where the main loop is
  cmd,              \* native host: the command being handled
  stdout,           \* native host: the number of messages written to stdout, and the last
  hostProcess,      \* MCP server: the running host process, or NoPeer (null)
  socket,           \* MCP server v2: the socket, or NoPeer (null)
  \* -- the decoders ---------------------------------------------------------
  dec,              \* which decoder this run feeds ("none": a correlator run)
  sent,             \* the messages the sender framed, in order
  over,             \* the declared length of the unfinished frame the stream starts
                    \* with, or 0 if the stream is made of complete frames
  bad,              \* the stream starts with a frame whose payload is no JSON
  stream,           \* the bytes that have not arrived yet
  buffer,           \* the decoder's buffer (clientBuffer, a string, in the v2 host)
  expectedLength,   \* readMessage: the prefix it has read, or Null
  rd,               \* native host main loop: "listening" (a readMessage is pending)
                    \* or "handling" (awaiting handleCommand, no listener on stdin)
  delivered,        \* the messages the decoder has passed to its handler, in order
  rejects,          \* readMessage: the number of 'Message too large' rejections
  lastCount,        \* the number of messages the last chunk completed
  splitPrefix,      \* a chunk has ended inside a 4-byte prefix
  \* -- BrowserManager and executeCommand ----------------------------------------
  browser,          \* this.browser: NoBrowser (null) or Live
  contexts,         \* this.contexts: the browsing contexts, by id
  pages,            \* this.pages: the open tabs, each [id, ctx]
  activePageIndex,  \* this.activePageIndex, a number kept in halves (see H)
  activeFrame,      \* this.activeFrame: NoFrame (null) or the frame of a page, by page id
  nextPage,         \* the id of the next page the engine creates
  nextContext,      \* the id of the next context the engine creates
  command,          \* the command executeCommand was last called with
  raised,           \* what the handler of that command threw, or NoError
  returned,         \* the Response executeCommand returned for it
  fractional,       \* a non-integer index has been passed to the manager
  issued,           \* the frame the last command's element call was issued against
  \* -- the page: document, snapshot engine, content script ----------------------
  script,           \* the script of this run: "snapshot-browser" or "content"; in
                    \* SpecText the function called
  parentNode,       \* the document: the parent of each element, NoNode once removed
  displayNone,      \* the elements styled display: none
  refCounter,       \* snapshot-browser.js: refCounter
  refMap,           \* snapshot-browser.js: refMap, ref -> element
  elementCounter,   \* content.js: refCounter
  elementMap,       \* content.js: elementMap, ref -> element
  last,             \* the last call into the script: its arguments and what it returned
  \* -- the v2 native host: its socket server and Chrome's messages -------------
  mcpClient,        \* mcpClient: the client of the last connection, or NoPeer (null)
  clients,          \* per connection of the socket server: "none", "open" or "closed"
  forwarded,        \* the requests passed to sendToChrome, each with the connection
                    \* it came from
  answered,         \* the positions in forwarded Chrome has answered
  received,         \* per connection, the messages written to it
  lastChrome,       \* the last message of Chrome handled, and the connection it was
                    \* written to
  \* -- BrowserManager: calls in progress, the dialog handler -------------------
  inflight,         \* per client connection, the manager call made for its command:
                    \* what it holds across its await, and how it settled
  dialogHandler,    \* BrowserManager.dialogHandler, NoHandler for null
  listeners,        \* per page, its 'dialog' listeners
  nextHandler,      \* the next handler function setDialogHandler creates
  \* -- the native host's stdin --------------------------------------------------
  stdinEnded        \* process.stdin has emitted 'end'

corrVars ==
  << sys, now, nextId, pendingRequests, timers, settle, lastEvent, extensionSocket,
     sock, messageQueue, wire, lastWrite, hostPc, cmd, stdout, hostProcess, socket >>

wireVars ==
  << dec, sent, over, bad, stream, buffer, expectedLength, rd, delivered, rejects, lastCount,
     splitPrefix >>

tabVars ==
  << browser, contexts, pages, activePageIndex, activeFrame, nextPage, nextContext,
     command, raised, returned, fractional, issued >>

refVars ==
  << script, parentNode, displayNone, refCounter, refMap, elementCounter, elementMap,
     last >>

serverVars == << mcpClient, clients, forwarded, answered, received, lastChrome >>

overlapVars == << inflight >>

dialogVars == << dialogHandler, listeners, nextHandler >>

loopVars == << stdinEnded >>

vars ==
  << corrVars, wireVars, tabVars, refVars, serverVars, overlapVars, dialogVars, loopVars >>

\* what the actions of one group leave alone
notCorrVars == << wireVars, tabVars, refVars, serverVars, overlapVars, dialogVars,
     loopVars >>
notWireVars == << corrVars, tabVars, refVars, serverVars, overlapVars, dialogVars,
     loopVars >>
notTabVars == << corrVars, wireVars, refVars, serverVars, overlapVars, dialogVars,
     loopVars >>
notRefVars == << corrVars, wireVars, tabVars, serverVars, overlapVars, dialogVars,
     loopVars >>
notServerVars == << corrVars, wireVars, tabVars, refVars, overlapVars, dialogVars,
     loopVars >>

Peers == 1..MaxPeers
Requests == 1..MaxReq
NoPeer == 1 - 1
NoCmd == [id |-> NoId, req |-> NoId]
\* null (expectedLength before the prefix is read)
Null == 0 - 1

NoBrowser == "null"
Live == "live"
NoFrame == 1 - 1
\* a frame of a page: its main frame, or the frame a frame command found in it
MainFrameOf(page) == [page |-> page, main |-> TRUE]
FrameIn(page) == [page |-> page, main |-> FALSE]
NoTarget == FrameIn(NoFrame)
NoError == "none"
NoCommand == [id |-> "none", action |-> "none", index |-> 0]
NoResponse == [id |-> "none", success |-> FALSE, error |-> NoError]

\* a client connection without a manager call, a manager without dialog handler
Conns == 1..MaxConns
NoCallInProgress ==
  [op |-> "none", targetIndex |-> 0, page |-> 0, total |-> 0, settled |-> "none",
   during |-> { }]
NoHandler == 1 - 1

\* the manager's variables, and executeCommand's, before construction
TabIdle ==
  /\ browser = NoBrowser
  /\ contexts = << >>
  /\ pages = << >>
  /\ activePageIndex = 0
  /\ activeFrame = NoFrame
  /\ nextPage = 1
  /\ nextContext = 1
  /\ command = NoCommand
  /\ raised = NoError
  /\ returned = NoResponse
  /\ fractional = FALSE
  /\ issued = NoTarget
  /\ inflight = [c \in Conns |-> NoCallInProgress]
  /\ dialogHandler = NoHandler
  /\ listeners = [p \in 1..MaxPages |-> { }]
  /\ nextHandler = 1

\* the correlators' variables in a run of another component
CorrIdle ==
  /\ sys = "none"
  /\ now = 0
  /\ nextId = 1
  /\ pendingRequests = << >>
  /\ timers = { }
  /\ settle = [r \in 1..MaxReq |-> << >>]
  /\ lastEvent = [op |-> "other", id |-> NoId]
  /\ extensionSocket = 1 - 1
  /\ sock = [p \in 1..MaxPeers |-> "none"]
  /\ messageQueue = << >>
  /\ wire = [p \in 1..MaxPeers |-> << >>]
  /\ lastWrite = << >>
  /\ hostPc = "read"
  /\ cmd = [id |-> NoId, req |-> NoId]
  /\ stdout = [n |-> 0, last |-> [inReplyTo |-> NoId, id |-> NoId, bytes |-> << >>]]
  /\ hostProcess = 1 - 1
  /\ socket = 1 - 1
  /\ stdinEnded = FALSE

\* the decoders' variables while a correlator runs
WireIdle ==
  /\ dec = "none"
  /\ sent = << >>
  /\ over = 0
  /\ bad = FALSE
  /\ stream = << >>
  /\ buffer = << >>
  /\ expectedLength = Null
  /\ rd = "listening"
  /\ delivered = << >>
  /\ rejects = 0
  /\ lastCount = 0
  /\ splitPrefix = FALSE

\* -- the page: document, snapshot engine, content script -----------------------
\* null or undefined where an element is expected
NoNode == "null"
\* a parameter or option that was not given (undefined; the code tests it for truth)
NotGiven == ""
\* options.maxDepth === undefined
NoDepth == 0 - 1
\* a Map or an object without entries
EmptyMap == [r \in { } |-> NoNode]
NoOptions ==
  [interactive |-> FALSE, compact |-> FALSE, maxDepth |-> NoDepth, selector |-> NotGiven]
NoParams == [ref |-> NotGiven, selector |-> NotGiven, text |-> NotGiven]
\* nothing has been called yet
NoCall ==
  [op |-> "none", options |-> NoOptions, params |-> NoParams, before |-> 0,
   node |-> NoNode, error |-> NoError, refs |-> EmptyMap, elements |-> << >>,
   tree |-> << >>, arg |-> << >>, out |-> << >>]

\* the page's variables in a run of another component
RefIdle ==
  /\ script = "none"
  /\ parentNode = EmptyMap
  /\ displayNone = { }
  /\ refCounter = 0
  /\ refMap = EmptyMap
  /\ elementCounter = 0
  /\ elementMap = EmptyMap
  /\ last = NoCall

\* -- the v2 native host -----------------------------------------------------------
\* no message of Chrome handled yet
NoChrome == [type |-> "none", id |-> NoPeer, from |-> NoPeer, to |-> NoPeer]

ServerIdle ==
  /\ mcpClient = NoPeer
  /\ clients = [p \in Peers |-> "none"]
  /\ forwarded = << >>
  /\ answered = { }
  /\ received = [p \in Peers |-> << >>]
  /\ lastChrome = NoChrome

\* the elements of a sequence
Range(q) == { q[k] : k \in 1..Len(q) }

\* Map.delete(id) on the insertion-ordered keys
RECURSIVE MapDelete(_, _)
MapDelete(q, id) ==
  IF q = << >> THEN << >>
  ELSE IF Head(q) = id THEN Tail(q)
  ELSE << Head(q) >> \o MapDelete(Tail(q), id)

\* a call of a request's resolve or reject: how it came about ("reply": a response
\* was handed to pending.resolve, or its error to pending.reject; "timeout";
\* "notRunning" / "notConnected": rejected at once) and, for a reply, the id of the
\* request the response answers
Outcome(how, by) == [how |-> how, by |-> by]
Event(op, id) == [op |-> op, id |-> id]
Other == Event("other", NoId)

\* clearTimeout(pending.timeout)
clearTimeout(id) == { t \in timers : t.id # id }

\* a timer armed at t.set with the given delay may run its callback
Due(t, delay) == now >= t.set + delay

(***************************************************************************)
(* Native host: framing of outgoing messages.                              *)
(***************************************************************************)

\* sendMessage(msg): the bytes written to stdout
sendMessage(msg) ==
  LET json == JSONstringify(msg)
      length == byteLength(json)
  IN writeUInt32LE(length) \o Utf8Encode(json)

\* the two socket.write() calls of sendToExtension (lines 153-157) and of the queue
\* flush (lines 232-236): the prefix holds json.length, the payload is the string
\* written as UTF-8
socketWrite(message) ==
  LET json == JSONstringify(message)
  IN writeUInt32LE(Len(json)) \o Utf8Encode(json)

(***************************************************************************)
(* Native host (sys = "host"): the main loop on stdin/stdout, the           *)
(* correlator towards the extension, and the IPC server.                   *)
(***************************************************************************)

\* texts of the messages the host itself produces
PongText == << 112, 111, 110, 103 >>
ErrorText == << 101, 114, 114 >>
\* the text a peer's response carries: "é"
ReplyTexts == { << 233 >> }
\* the command types on stdin: answered locally, forwarded, unknown
CmdTypes == { "ping", "click", "bogus" }

NoMessage == [inReplyTo |-> NoId, id |-> NoId, bytes |-> << >>]
NoOutput == [n |-> 0, last |-> NoMessage]
\* a step that writes nothing to stdout
Quiet(out) == [out EXCEPT !.last = NoMessage]

\* the main loop after handleCommand returned or threw: sendMessage, then loop
\* (main, lines 443-455)
mainReply(c, msg) ==
  /\ stdout' = [n |-> stdout.n + 1,
                last |-> [inReplyTo |-> c.id, id |-> msg.id, bytes |-> sendMessage(msg)]]
  /\ hostPc' = "read"
  /\ cmd' = NoCmd

\* the main loop resumes if the promise it awaits was settled by this step
mainResume(msg) ==
  IF hostPc = "await" /\ settle[cmd.req] = << >> /\ settle'[cmd.req] # << >>
  THEN mainReply(cmd, msg)
  ELSE /\ stdout' = Quiet(stdout)
       /\ UNCHANGED << hostPc, cmd >>

sendToExtension(text) ==
  LET id == nextId
      message == Msg(id, text)
  IN /\ nextId' = nextId + 1
     /\ timers' = timers \cup { [id |-> id, set |-> now] }
     /\ pendingRequests' = Append(pendingRequests, id)
     /\ IF extensionSocket # NoPeer /\ sock[extensionSocket] = "open"
        THEN /\ wire' = [wire EXCEPT ![extensionSocket] = Append(@, id)]
             /\ lastWrite' = << socketWrite(message) >>
             /\ UNCHANGED messageQueue
        ELSE /\ messageQueue' = Append(messageQueue, [id |-> id, message |-> message])
             /\ lastWrite' = << >>
             /\ UNCHANGED wire

\* (mutant) the response handler forgets clearTimeout
handleExtensionResponseKeepsTimer(response) ==
  IF response.id \in Range(pendingRequests)
  THEN /\ timers' = timers
       /\ pendingRequests' = MapDelete(pendingRequests, response.id)
       /\ settle' = [settle EXCEPT ![response.id] =
                       Append(@, Outcome("reply", response.id))]
  ELSE UNCHANGED << timers, pendingRequests, settle >>

\* handleExtensionResponse(response): pending.reject(new Error(response.error)) or
\* pending.resolve(response), one call either way
handleExtensionResponse(response) ==
  IF response.id \in Range(pendingRequests)
  THEN /\ timers' = clearTimeout(response.id)
       /\ pendingRequests' = MapDelete(pendingRequests, response.id)
       /\ settle' = [settle EXCEPT ![response.id] =
                       Append(@, Outcome("reply", response.id))]
  ELSE UNCHANGED << timers, pendingRequests, settle >>

handleCommand(c) ==
  CASE c.type = "ping" ->
         /\ mainReply(c, Msg(NoId, PongText))
         /\ lastWrite' = << >>
         /\ UNCHANGED << nextId, timers, pendingRequests, wire, messageQueue >>
    [] c.type = "click" ->
         /\ nextId <= MaxReq
         /\ now + ExtensionTimeoutMs <= MaxTime
         /\ sendToExtension(c.text)
         /\ hostPc' = "await"
         /\ cmd' = [id |-> c.id, req |-> nextId]
         /\ stdout' = Quiet(stdout)
    [] OTHER ->
         /\ mainReply(c, Msg(NoId, ErrorText))
         /\ lastWrite' = << >>
         /\ UNCHANGED << nextId, timers, pendingRequests, wire, messageQueue >>

\* readMessage resolves with a command and the main loop handles it
HostCommand(type, text) ==
  /\ UNCHANGED notCorrVars
  /\ sys = "host" /\ hostPc = "read" /\ stdout.n < MaxCmds
  /\ handleCommand([id |-> CmdIdBase + stdout.n + 1, type |-> type, text |-> text])
  /\ lastEvent' = Other
  /\ UNCHANGED << sys, now, settle, extensionSocket, sock, hostProcess, socket >>

\* readMessage rejects (invalid JSON, message too large): the loop reports it
HostReadError ==
  /\ UNCHANGED notCorrVars
  /\ sys = "host" /\ hostPc = "read" /\ stdout.n < MaxCmds
  /\ mainReply(NoCmd, Msg(NoId, ErrorText))
  /\ lastEvent' = Other
  /\ lastWrite' = << >>
  /\ UNCHANGED << sys, now, nextId, pendingRequests, timers, settle, extensionSocket, sock,
                  messageQueue, wire, hostProcess, socket >>

\* readMessage rejects with 'stdin closed': the loop breaks, process.exit(0)
HostStdinEnd ==
  /\ UNCHANGED notCorrVars
  /\ sys = "host" /\ hostPc = "read"
  /\ hostPc' = "exit"
  /\ lastEvent' = Other
  /\ lastWrite' = << >>
  /\ stdout' = Quiet(stdout)
  /\ UNCHANGED << sys, now, nextId, pendingRequests, timers, settle, extensionSocket, sock,
                  messageQueue, wire, cmd, hostProcess, socket >>

\* the ids of the queued messages, in queue order
RECURSIVE queuedIds(_)
queuedIds(q) ==
  IF q = << >> THEN << >> ELSE << Head(q).id >> \o queuedIds(Tail(q))

\* the queue flush of the connection handler: messageQueue.shift() until empty,
\* each message written to the socket
RECURSIVE flushQueue(_)
flushQueue(q) ==
  IF q = << >> THEN << >>
  ELSE << socketWrite(Head(q).message) >> \o flushQueue(Tail(q))

\* (mutant) the flush takes the queue from its end: pop() instead of shift()
RECURSIVE reversed(_)
reversed(q) == IF q = << >> THEN << >> ELSE reversed(Tail(q)) \o << Head(q) >>
connectionPop(p) ==
  /\ extensionSocket' = p
  /\ wire' = [wire EXCEPT ![p] = @ \o queuedIds(reversed(messageQueue))]
  /\ lastWrite' = flushQueue(reversed(messageQueue))
  /\ messageQueue' = << >>

\* createServer's connection handler (lines 193-239)
connection(p) ==
  /\ extensionSocket' = p
  /\ wire' = [wire EXCEPT ![p] = @ \o queuedIds(messageQueue)]
  /\ lastWrite' = flushQueue(messageQueue)
  /\ messageQueue' = << >>

\* (connections are numbered in the order they are accepted)
ExtConnect(p) ==
  /\ UNCHANGED notCorrVars
  /\ sys = "host" /\ hostPc # "exit" /\ sock[p] = "none"
  /\ \A j \in Peers : j < p => sock[j] # "none"
  /\ sock' = [sock EXCEPT ![p] = "open"]
  /\ connection(p)
  /\ lastEvent' = Other
  /\ stdout' = Quiet(stdout)
  /\ UNCHANGED << sys, now, nextId, pendingRequests, timers, settle, hostPc, cmd,
                  hostProcess, socket >>

\* the peer goes away: the socket is destroyed, its 'close' event still to come
ExtDestroy(p) ==
  /\ UNCHANGED notCorrVars
  /\ sys = "host" /\ hostPc # "exit" /\ sock[p] = "open"
  /\ sock' = [sock EXCEPT ![p] = "destroyed"]
  /\ lastEvent' = Other
  /\ lastWrite' = << >>
  /\ stdout' = Quiet(stdout)
  /\ UNCHANGED << sys, now, nextId, pendingRequests, timers, settle, extensionSocket,
                  messageQueue, wire, hostPc, cmd, hostProcess, socket >>

\* socket.on('close')
ExtClose(p) ==
  /\ UNCHANGED notCorrVars
  /\ sys = "host" /\ hostPc # "exit" /\ sock[p] = "destroyed"
  /\ sock' = [sock EXCEPT ![p] = "closed"]
  /\ extensionSocket' = NoPeer
  /\ lastEvent' = Other
  /\ lastWrite' = << >>
  /\ stdout' = Quiet(stdout)
  /\ UNCHANGED << sys, now, nextId, pendingRequests, timers, settle, messageQueue, wire,
                  hostPc, cmd, hostProcess, socket >>

\* socket.on('data') with one complete frame: a response carrying id i
ExtData(p, i, err, text) ==
  /\ UNCHANGED notCorrVars
  /\ sys = "host" /\ hostPc # "exit" /\ sock[p] = "open"
  /\ i \in Range(wire[p]) \cup { UnknownId, NoId }
  /\ handleExtensionResponse([id |-> i, error |-> err, text |-> text])
  /\ mainResume(IF err THEN Msg(NoId, ErrorText) ELSE Msg(i, text))
  /\ lastEvent' = Event("reply", i)
  /\ lastWrite' = << >>
  /\ UNCHANGED << sys, now, nextId, extensionSocket, sock, messageQueue, wire, hostProcess,
                  socket >>

\* (mutant) the timer callback removes the entry and forgets to reject
extensionTimeoutSilent(t) ==
  /\ timers' = timers \ { t }
  /\ pendingRequests' = MapDelete(pendingRequests, t.id)
  /\ settle' = settle

\* the timer callback of sendToExtension
extensionTimeout(t) ==
  /\ timers' = timers \ { t }
  /\ pendingRequests' = MapDelete(pendingRequests, t.id)
  /\ settle' = [settle EXCEPT ![t.id] = Append(@, Outcome("timeout", NoId))]

HostTimerFire(r) ==
  /\ UNCHANGED notCorrVars
  /\ sys = "host" /\ hostPc # "exit"
  /\ \E t \in timers :
       /\ t.id = r /\ Due(t, ExtensionTimeoutMs)
       /\ extensionTimeout(t)
  /\ mainResume(Msg(NoId, ErrorText))
  /\ lastEvent' = Other
  /\ lastWrite' = << >>
  /\ UNCHANGED << sys, now, nextId, extensionSocket, sock, messageQueue, wire, hostProcess,
                  socket >>

\* time passes
Tick ==
  /\ UNCHANGED notCorrVars
  /\ now < MaxTime
  /\ now' = Min(now + TickMs, MaxTime)
  /\ lastEvent' = Other
  /\ lastWrite' = << >>
  /\ stdout' = Quiet(stdout)
  /\ UNCHANGED << sys, nextId, pendingRequests, timers, settle, extensionSocket, sock,
                  messageQueue, wire, hostPc, cmd, hostProcess, socket >>

(***************************************************************************)
(* MCP server (sys = "mcp"): NativeHostConnection over the host's stdio.   *)
(* sock[k] is the state of the k-th spawned host process, wire[k] the      *)
(* requests written to its stdin that it has not answered yet.  The host   *)
(* answers the commands on its stdin one at a time, in order.              *)
(***************************************************************************)

\* sendToHost(message), hp being this.hostProcess at the call
sendToHost(hp) ==
  IF hp = NoPeer
  THEN /\ settle' = [settle EXCEPT ![nextId] = Append(@, Outcome("notRunning", NoId))]
       /\ nextId' = nextId + 1
       /\ UNCHANGED << timers, pendingRequests, wire >>
  ELSE LET id == nextId
       IN /\ now + HostTimeoutMs <= MaxTime
          /\ nextId' = nextId + 1
          /\ timers' = timers \cup { [id |-> id, set |-> now] }
          /\ pendingRequests' = Append(pendingRequests, id)
          /\ wire' = [wire EXCEPT ![hp] = Append(@, id)]
          /\ UNCHANGED settle

\* handleHostResponse(response): the first pending request takes the response
\* (pending.reject if it carries an error, pending.resolve otherwise)
handleHostResponse(response) ==
  IF pendingRequests # << >>
  THEN LET id == Head(pendingRequests)
       IN /\ timers' = clearTimeout(id)
          /\ pendingRequests' = MapDelete(pendingRequests, id)
          /\ settle' = [settle EXCEPT ![id] =
                          Append(@, Outcome("reply", response.for))]
  ELSE UNCHANGED << timers, pendingRequests, settle >>

\* start(): spawn the host and ask it for its IPC port
McpStart(k) ==
  /\ UNCHANGED notCorrVars
  /\ sys = "mcp" /\ hostProcess = NoPeer /\ sock[k] = "none" /\ nextId <= MaxReq
  /\ \A j \in Peers : j < k => sock[j] # "none"
  /\ hostProcess' = k
  /\ sock' = [sock EXCEPT ![k] = "open"]
  /\ sendToHost(k)
  /\ lastEvent' = Other
  /\ lastWrite' = << >>
  /\ stdout' = Quiet(stdout)
  /\ UNCHANGED << sys, now, extensionSocket, messageQueue, hostPc, cmd, socket >>

\* a call of sendToHost (from sendCommand, once start() has returned)
McpSendToHost ==
  /\ UNCHANGED notCorrVars
  /\ sys = "mcp" /\ nextId <= MaxReq
  /\ sendToHost(hostProcess)
  /\ lastEvent' = Other
  /\ lastWrite' = << >>
  /\ stdout' = Quiet(stdout)
  /\ UNCHANGED << sys, now, extensionSocket, sock, messageQueue, hostPc, cmd, hostProcess,
                  socket >>

\* hostProcess.stdout 'data' with one complete frame: the host's answer to the
\* oldest command it has not answered yet
McpHostReply ==
  /\ UNCHANGED notCorrVars
  /\ sys = "mcp" /\ hostProcess # NoPeer /\ wire[hostProcess] # << >>
  /\ handleHostResponse([for |-> Head(wire[hostProcess])])
  /\ wire' = [wire EXCEPT ![hostProcess] = Tail(@)]
  /\ lastEvent' = Event("reply", Head(wire[hostProcess]))
  /\ lastWrite' = << >>
  /\ stdout' = Quiet(stdout)
  /\ UNCHANGED << sys, now, nextId, extensionSocket, sock, messageQueue, hostPc, cmd,
                  hostProcess, socket >>

\* hostProcess.on('exit')
McpHostExit ==
  /\ UNCHANGED notCorrVars
  /\ sys = "mcp" /\ hostProcess # NoPeer
  /\ sock' = [sock EXCEPT ![hostProcess] = "closed"]
  /\ hostProcess' = NoPeer
  /\ lastEvent' = Other
  /\ lastWrite' = << >>
  /\ stdout' = Quiet(stdout)
  /\ UNCHANGED << sys, now, nextId, pendingRequests, timers, settle, extensionSocket,
                  messageQueue, wire, hostPc, cmd, socket >>

\* the timer callback of sendToHost
hostTimeout(t) ==
  /\ timers' = timers \ { t }
  /\ pendingRequests' = MapDelete(pendingRequests, t.id)
  /\ settle' = [settle EXCEPT ![t.id] = Append(@, Outcome("timeout", NoId))]

McpTimerFire(r) ==
  /\ UNCHANGED notCorrVars
  /\ sys = "mcp"
  /\ \E t \in timers :
       /\ t.id = r /\ Due(t, HostTimeoutMs)
       /\ hostTimeout(t)
  /\ lastEvent' = Other
  /\ lastWrite' = << >>
  /\ stdout' = Quiet(stdout)
  /\ UNCHANGED << sys, now, nextId, extensionSocket, sock, messageQueue, wire, hostPc, cmd,
                  hostProcess, socket >>

(***************************************************************************)
(* MCP server v2 (sys = "v2"): sendCommand and the socket's data handler.  *)
(* wire[1] is what was written to the socket.                              *)
(***************************************************************************)

\* connect(), called once by main
V2Connect ==
  /\ UNCHANGED notCorrVars
  /\ sys = "v2" /\ socket = NoPeer /\ sock[1] = "none"
  /\ socket' = 1
  /\ sock' = [sock EXCEPT ![1] = "open"]
  /\ lastEvent' = Other
  /\ lastWrite' = << >>
  /\ stdout' = Quiet(stdout)
  /\ UNCHANGED << sys, now, nextId, pendingRequests, timers, settle, extensionSocket,
                  messageQueue, wire, hostPc, cmd, hostProcess >>

\* socket.on('close')
V2Close ==
  /\ UNCHANGED notCorrVars
  /\ sys = "v2" /\ socket # NoPeer
  /\ socket' = NoPeer
  /\ sock' = [sock EXCEPT ![1] = "closed"]
  /\ lastEvent' = Other
  /\ lastWrite' = << >>
  /\ stdout' = Quiet(stdout)
  /\ UNCHANGED << sys, now, nextId, pendingRequests, timers, settle, extensionSocket,
                  messageQueue, wire, hostPc, cmd, hostProcess >>

\* sendCommand(type, params)
sendCommand(s) ==
  IF s = NoPeer
  THEN /\ settle' = [settle EXCEPT ![nextId] = Append(@, Outcome("notConnected", NoId))]
       /\ nextId' = nextId + 1
       /\ UNCHANGED << timers, pendingRequests, wire >>
  ELSE LET id == nextId
       IN /\ now + CommandTimeoutMs <= MaxTime
          /\ nextId' = nextId + 1
          /\ pendingRequests' = Append(pendingRequests, id)
          /\ wire' = [wire EXCEPT ![s] = Append(@, id)]
          /\ timers' = timers \cup { [id |-> id, set |-> now] }
          /\ UNCHANGED settle

\* a tool call, once main has connected
V2SendCommand ==
  /\ UNCHANGED notCorrVars
  /\ sys = "v2" /\ sock[1] # "none" /\ nextId <= MaxReq
  /\ sendCommand(socket)
  /\ lastEvent' = Other
  /\ lastWrite' = << >>
  /\ stdout' = Quiet(stdout)
  /\ UNCHANGED << sys, now, extensionSocket, sock, messageQueue, hostPc, cmd, hostProcess,
                  socket >>

\* the data handler's body for one decoded message (lines 705-710)
resolveCommand(msg) ==
  IF msg.id \in Range(pendingRequests)
  THEN /\ pendingRequests' = MapDelete(pendingRequests, msg.id)
       /\ settle' = [settle EXCEPT ![msg.id] = Append(@, Outcome("reply", msg.id))]
  ELSE UNCHANGED << pendingRequests, settle >>

\* socket.on('data') with one complete frame: a message carrying id i
V2Data(i) ==
  /\ UNCHANGED notCorrVars
  /\ sys = "v2" /\ socket # NoPeer
  /\ i \in Range(wire[socket]) \cup { UnknownId, NoId }
  /\ resolveCommand([id |-> i])
  /\ lastEvent' = Event("reply", i)
  /\ lastWrite' = << >>
  /\ stdout' = Quiet(stdout)
  /\ UNCHANGED << sys, now, nextId, timers, extensionSocket, sock, messageQueue, wire,
                  hostPc, cmd, hostProcess, socket >>

\* the timer callback of sendCommand: the timer is never cleared, it checks has(id)
commandTimeout(t) ==
  /\ timers' = timers \ { t }
  /\ IF t.id \in Range(pendingRequests)
     THEN /\ pendingRequests' = MapDelete(pendingRequests, t.id)
          /\ settle' = [settle EXCEPT ![t.id] = Append(@, Outcome("timeout", NoId))]
     ELSE UNCHANGED << pendingRequests, settle >>

V2TimerFire(r) ==
  /\ UNCHANGED notCorrVars
  /\ sys = "v2"
  /\ \E t \in timers :
       /\ t.id = r /\ Due(t, CommandTimeoutMs)
       /\ commandTimeout(t)
  /\ lastEvent' = Other
  /\ lastWrite' = << >>
  /\ stdout' = Quiet(stdout)
  /\ UNCHANGED << sys, now, nextId, extensionSocket, sock, messageQueue, wire, hostPc, cmd,
                  hostProcess, socket >>

(***************************************************************************)
(* The correlators' specification.                                         *)
(***************************************************************************)
Init ==
  /\ sys \in { "host", "mcp", "v2" }
  /\ now = 0
  /\ nextId = 1
  /\ pendingRequests = << >>
  /\ timers = { }
  /\ settle = [r \in Requests |-> << >>]
  /\ lastEvent = Other
  /\ extensionSocket = NoPeer
  /\ sock = [p \in Peers |-> "none"]
  /\ messageQueue = << >>
  /\ wire = [p \in Peers |-> << >>]
  /\ lastWrite = << >>
  /\ hostPc = "read"
  /\ cmd = NoCmd
  /\ stdout = NoOutput
  /\ hostProcess = NoPeer
  /\ socket = NoPeer
  /\ stdinEnded = FALSE
  /\ WireIdle
  /\ TabIdle
  /\ ServerIdle
  /\ RefIdle

Next ==
  \/ \E type \in CmdTypes, text \in Texts : HostCommand(type, text)
  \/ HostReadError
  \/ HostStdinEnd
  \/ \E p \in Peers : ExtConnect(p)
  \/ \E p \in Peers : ExtDestroy(p)
  \/ \E p \in Peers : ExtClose(p)
  \/ \E p \in Peers, i \in Requests \cup { UnknownId, NoId }, err \in BOOLEAN,
        text \in ReplyTexts : ExtData(p, i, err, text)
  \/ \E r \in Requests : HostTimerFire(r)
  \/ \E k \in Peers : McpStart(k)
  \/ McpSendToHost
  \/ McpHostReply
  \/ McpHostExit
  \/ \E r \in Requests : McpTimerFire(r)
  \/ V2Connect
  \/ V2Close
  \/ V2SendCommand
  \/ \E i \in Requests \cup { UnknownId, NoId } : V2Data(i)
  \/ \E r \in Requests : V2TimerFire(r)
  \/ Tick

Spec == Init /\ [][Next]_vars

\* a due timer callback runs
TimerFire ==
  \E r \in Requests : HostTimerFire(r) \/ McpTimerFire(r) \/ V2TimerFire(r)

\* the event loop: time passes, and a due timer callback is eventually run
FairSpec == Spec /\ WF_vars(Tick) /\ WF_vars(TimerFire)

(***************************************************************************)
(* The decoders (SpecWire).  A run feeds one decoder with a byte stream,   *)
(* cut into chunks in every possible way.  What the handlers do with the   *)
(* decoded messages, and what the main loop writes to stdout, is the       *)
(* subject of Spec.                                                        *)
(***************************************************************************)

\* the messages a sender frames: without an id, "a" or "é"; with id 1, "é"
WireMsgs == { Msg(NoId, t) : t \in Texts } \cup { Msg(1, << 233 >>) }

\* the sequences of at most n messages
RECURSIVE MsgSeqs(_)
MsgSeqs(n) ==
  IF n = 0 THEN { << >> }
  ELSE MsgSeqs(n - 1)
         \cup { Append(q, m) : q \in { x \in MsgSeqs(n - 1) : Len(x) = n - 1 }, m \in WireMsgs }

\* a valid frame is what sendMessage writes; a sequence of valid frames
RECURSIVE FramesOf(_)
FramesOf(q) ==
  IF q = << >> THEN << >> ELSE sendMessage(Head(q)) \o FramesOf(Tail(q))

\* a correctly framed payload that is no JSON: the one byte 'x'
BadFrame == writeUInt32LE(1) \o << 120 >>

\* the first bytes of the payload that follows a prefix declaring `over` bytes
OverPayload == << 123, 34, 116, 101, 120, 116 >>

RECURSIVE processBuffer(_)

\* (mutant) `if` in place of `while`: one frame per call
processBufferOnce(buf) ==
  IF Len(buf) < 4 THEN [buffer |-> buf, out |-> << >>]
  ELSE LET length == readUInt32LE(buf)
       IN IF Len(buf) - 4 < length THEN [buffer |-> buf, out |-> << >>]
          ELSE LET message == JSONparse(toStringUtf8(SubSeq(buf, 5, 4 + length)))
               IN [buffer |-> SubSeq(buf, 5 + length, Len(buf)),
                   out |-> IF message.ok THEN << message.msg >> ELSE << >>]

\* NativeHostConnection.processBuffer(): while the buffer holds a complete frame,
\* slice it off, parse it and hand it over (a frame that does not parse is logged
\* and dropped); the result is the buffer left and the messages handed over
processBuffer(buf) ==
  IF Len(buf) < 4 THEN [buffer |-> buf, out |-> << >>]
  ELSE LET length == readUInt32LE(buf)
       IN IF Len(buf) - 4 < length THEN [buffer |-> buf, out |-> << >>]
          ELSE LET message == JSONparse(toStringUtf8(SubSeq(buf, 5, 4 + length)))
                   rest == processBuffer(SubSeq(buf, 5 + length, Len(buf)))
               IN [buffer |-> rest.buffer,
                   out |-> (IF message.ok THEN << message.msg >> ELSE << >>) \o rest.out]

\* hostProcess.stdout.on('data'): concat, then processBuffer()
hostStdoutOnData(buf, chunk) == processBuffer(buf \o chunk)

\* the native host's IPC socket.on('data'): concat, then the same loop, inline
ipcOnData(buf, chunk) == processBuffer(buf \o chunk)

\* the MCP server v2's socket.on('data'): concat, then the same loop, inline
socketOnData(buf, chunk) == processBuffer(buf \o chunk)

\* readMessage's onData(chunk): what the listener does with the promise, and the
\* buffer and expectedLength it leaves
onData(buf, exp, chunk) ==
  LET b == buf \o chunk
      readsPrefix == exp = Null /\ Len(b) >= 4
      e == IF readsPrefix THEN readUInt32LE(b) ELSE exp
      left == [state |-> "pending", buffer |-> b, expectedLength |-> e, msg |-> Msg(NoId, << >>)]
  IN IF readsPrefix /\ e > Ceiling
     THEN [left EXCEPT !.state = "tooLarge"]
     ELSE IF e # Null /\ Len(b) - 4 >= e
     THEN LET message == JSONparse(toStringUtf8(SubSeq(b, 5, 4 + e)))
          IN IF message.ok
             THEN [left EXCEPT !.state = "resolve", !.msg = message.msg]
             ELSE [left EXCEPT !.state = "invalidJSON"]
     ELSE left

\* String.prototype.split('\n'): the pieces between the separators
RECURSIVE split(_, _)
split(str, sep) ==
  IF \A k \in DOMAIN str : str[k] # sep THEN << str >>
  ELSE LET at == CHOOSE k \in DOMAIN str :
                   str[k] = sep /\ \A j \in 1..(k - 1) : str[j] # sep
       IN << SubSeq(str, 1, at - 1) >> \o split(SubSeq(str, at + 1, Len(str)), sep)

WhiteSpace == { 9, 10, 11, 12, 13, 32, 160 }

\* String.prototype.trim()
RECURSIVE trim(_)
trim(str) ==
  IF str = << >> THEN str
  ELSE IF Head(str) \in WhiteSpace THEN trim(Tail(str))
  ELSE IF str[Len(str)] \in WhiteSpace THEN trim(SubSeq(str, 1, Len(str) - 1))
  ELSE str

\* the `for (const line of lines)` loop of the v2 host's client.on('data')
RECURSIVE parseLines(_)
parseLines(lines) ==
  IF lines = << >> THEN << >>
  ELSE LET line == Head(lines)
           msg == JSONparse(line)
       IN (IF trim(line) # << >> /\ msg.ok THEN << msg.msg >> ELSE << >>)
            \o parseLines(Tail(lines))

\* the v2 host's client.on('data'): clientBuffer += data.toString(), split on '\n',
\* keep the last piece, parse the others
clientOnData(clientBuffer, data) ==
  LET lines == split(clientBuffer \o toStringUtf8(data), 10)
  IN [buffer |-> lines[Len(lines)],
      out |-> parseLines(SubSeq(lines, 1, Len(lines) - 1))]

\* the bytes sendCommand writes to the socket (MCP server v2)
commandBytes(msg) ==
  LET json == JSONstringify(msg)
      len == byteLength(json)
  IN writeUInt32LE(len) \o Utf8Encode(json)

\* the bytes handleChromeMessage writes to mcpClient (v2 host)
mcpClientWrite(msg) == Utf8Encode(JSONstringify(msg) \o << 10 >>)

\* what a sender puts on the stream for a sequence of messages
RECURSIVE Written(_, _)
Written(d, q) ==
  IF q = << >> THEN << >>
  ELSE (CASE d = "v2up" -> commandBytes(Head(q))
          [] d = "v2down" -> mcpClientWrite(Head(q))
          [] OTHER -> sendMessage(Head(q)))
         \o Written(d, Tail(q))

Decoders == { "ipc", "processBuffer", "v2sock", "stdin", "v2up", "v2down" }

\* a 'data' event with the next k bytes: the handler left res.buffer and handed
\* over res.out
Arrive(k, res) ==
  /\ stream' = SubSeq(stream, k + 1, Len(stream))
  /\ buffer' = res.buffer
  /\ delivered' = delivered \o res.out
  /\ lastCount' = Len(res.out)
  /\ splitPrefix' = (splitPrefix \/ Len(res.buffer) \in 1..3)

\* native host: 'data' on the extension's IPC socket
IpcData(k) ==
  /\ dec = "ipc" /\ k <= Len(stream)
  /\ Arrive(k, ipcOnData(buffer, SubSeq(stream, 1, k)))
  /\ UNCHANGED << dec, sent, over, bad, expectedLength, rd, rejects >>
  /\ UNCHANGED notWireVars

\* MCP server: 'data' on the host process's stdout
McpStdoutData(k) ==
  /\ dec = "processBuffer" /\ k <= Len(stream)
  /\ Arrive(k, hostStdoutOnData(buffer, SubSeq(stream, 1, k)))
  /\ UNCHANGED << dec, sent, over, bad, expectedLength, rd, rejects >>
  /\ UNCHANGED notWireVars

\* MCP server v2: 'data' on the socket to the v2 host
V2SocketData(k) ==
  /\ dec \in { "v2sock", "v2down" } /\ k <= Len(stream)
  /\ Arrive(k, socketOnData(buffer, SubSeq(stream, 1, k)))
  /\ UNCHANGED << dec, sent, over, bad, expectedLength, rd, rejects >>
  /\ UNCHANGED notWireVars

\* v2 host: 'data' on the MCP server's connection
V2ClientData(k) ==
  /\ dec = "v2up" /\ k <= Len(stream)
  /\ Arrive(k, clientOnData(buffer, SubSeq(stream, 1, k)))
  /\ UNCHANGED << dec, sent, over, bad, expectedLength, rd, rejects >>
  /\ UNCHANGED notWireVars

\* native host: 'data' on stdin while a readMessage is pending.  A resolved message
\* goes to handleCommand, which returns at once (slow = FALSE: the loop is back in
\* readMessage before the next event) or awaits the extension (slow = TRUE); a
\* rejection is reported and the loop calls readMessage again.  Every readMessage
\* starts with an empty buffer.
StdinData(k, slow) ==
  /\ dec = "stdin" /\ rd = "listening" /\ k <= Len(stream)
  /\ LET r == onData(buffer, expectedLength, SubSeq(stream, 1, k))
     IN /\ stream' = SubSeq(stream, k + 1, Len(stream))
        /\ buffer' = IF r.state = "pending" THEN r.buffer ELSE << >>
        /\ expectedLength' = IF r.state = "pending" THEN r.expectedLength ELSE Null
        /\ delivered' = IF r.state = "resolve" THEN Append(delivered, r.msg) ELSE delivered
        /\ lastCount' = IF r.state = "resolve" THEN 1 ELSE 0
        /\ rejects' = IF r.state = "tooLarge" THEN rejects + 1 ELSE rejects
        /\ rd' = IF r.state = "resolve" /\ slow THEN "handling" ELSE "listening"
        /\ splitPrefix' = (splitPrefix \/ (r.state = "pending" /\ Len(r.buffer) \in 1..3))
  /\ UNCHANGED << dec, sent, over, bad >>
  /\ UNCHANGED notWireVars

\* native host: 'data' on stdin while handleCommand is awaited: cleanup() removed
\* the listener and the stream keeps flowing, so the chunk reaches no one
StdinUnheard(k) ==
  /\ dec = "stdin" /\ rd = "handling" /\ k <= Len(stream)
  /\ stream' = SubSeq(stream, k + 1, Len(stream))
  /\ lastCount' = 0
  /\ UNCHANGED << dec, sent, over, bad, buffer, expectedLength, rd, delivered, rejects,
                  splitPrefix >>
  /\ UNCHANGED notWireVars

\* native host: handleCommand settles, the result is sent, the loop calls readMessage
StdinHandled ==
  /\ dec = "stdin" /\ rd = "handling"
  /\ rd' = "listening"
  /\ lastCount' = 0
  /\ UNCHANGED << dec, sent, over, bad, stream, buffer, expectedLength, delivered, rejects,
                  splitPrefix >>
  /\ UNCHANGED notWireVars

WireInit ==
  /\ sys = "wire"
  /\ now = 0
  /\ nextId = 1
  /\ pendingRequests = << >>
  /\ timers = { }
  /\ settle = [r \in Requests |-> << >>]
  /\ lastEvent = Other
  /\ extensionSocket = NoPeer
  /\ sock = [p \in Peers |-> "none"]
  /\ messageQueue = << >>
  /\ wire = [p \in Peers |-> << >>]
  /\ lastWrite = << >>
  /\ hostPc = "read"
  /\ cmd = NoCmd
  /\ stdout = NoOutput
  /\ hostProcess = NoPeer
  /\ socket = NoPeer
  /\ stdinEnded = FALSE
  /\ dec \in Decoders
  /\ \/ /\ over = 0
        /\ bad = FALSE
        /\ sent \in MsgSeqs(MaxMsgs)
        /\ stream = Written(dec, sent)
     \/ /\ dec \in { "ipc", "processBuffer", "stdin" }
        /\ over \in { Ceiling, Ceiling + 1 }
        /\ bad = FALSE
        /\ sent = << >>
        /\ stream = writeUInt32LE(over) \o OverPayload
     \/ /\ dec \in { "ipc", "processBuffer", "stdin" }
        /\ over = 0
        /\ bad = TRUE
        /\ sent \in MsgSeqs(MaxMsgs)
        /\ stream = BadFrame \o Written(dec, sent)
  /\ buffer = << >>
  /\ expectedLength = Null
  /\ rd = "listening"
  /\ delivered = << >>
  /\ rejects = 0
  /\ lastCount = 0
  /\ splitPrefix = FALSE
  /\ TabIdle
  /\ ServerIdle
  /\ RefIdle

WireNext ==
  \/ \E k \in 1..MaxChunk : IpcData(k)
  \/ \E k \in 1..MaxChunk : McpStdoutData(k)
  \/ \E k \in 1..MaxChunk : V2SocketData(k)
  \/ \E k \in 1..MaxChunk : V2ClientData(k)
  \/ \E k \in 1..MaxChunk, slow \in BOOLEAN : StdinData(k, slow)
  \/ \E k \in 1..MaxChunk : StdinUnheard(k)
  \/ StdinHandled

SpecWire == WireInit /\ [][WireNext]_vars

(***************************************************************************)
(* The v2 native host (SpecServer): the socket server MCP clients connect  *)
(* to, and the messages of Chrome.  A request is a line of a client; its   *)
(* id is the client's own counter (++messageId), so two clients use the    *)
(* same ids.                                                               *)
(***************************************************************************)

\* net.createServer's connection callback: mcpClient = client
SocketConnect(p) ==
  /\ clients[p] = "none"
  /\ \A q \in Peers : q < p => clients[q] # "none"
  /\ mcpClient' = p
  /\ clients' = [clients EXCEPT ![p] = "open"]
  /\ lastChrome' = NoChrome
  /\ UNCHANGED << forwarded, answered, received >>
  /\ UNCHANGED notServerVars

\* client.on('data') with one complete line: sendToChrome(msg)
SocketData(p) ==
  /\ clients[p] = "open"
  /\ Len(forwarded) < MaxReq
  /\ forwarded' =
       Append(forwarded,
              [id |-> 1 + Cardinality({ k \in 1..Len(forwarded) : forwarded[k].from = p }),
               from |-> p])
  /\ lastChrome' = NoChrome
  /\ UNCHANGED << mcpClient, clients, answered, received >>
  /\ UNCHANGED notServerVars

\* client.on('close'): mcpClient = null
SocketClose(p) ==
  /\ clients[p] = "open"
  /\ mcpClient' = NoPeer
  /\ clients' = [clients EXCEPT ![p] = "closed"]
  /\ lastChrome' = NoChrome
  /\ UNCHANGED << forwarded, answered, received >>
  /\ UNCHANGED notServerVars

\* handleChromeMessage(msg): a ping is answered with a pong, any other message is
\* written to mcpClient if there is one
handleChromeMessage(msg) ==
  IF msg.type = "ping"
  THEN /\ lastChrome' = [msg EXCEPT !.to = NoPeer]
       /\ UNCHANGED received
  ELSE IF mcpClient # NoPeer
  THEN /\ received' = [received EXCEPT ![mcpClient] = Append(@, msg.id)]
       /\ lastChrome' = [msg EXCEPT !.to = mcpClient]
  ELSE /\ lastChrome' = [msg EXCEPT !.to = NoPeer]
       /\ UNCHANGED received

\* Chrome answers the k-th request forwarded to it
ChromeResponse(k) ==
  /\ k \in 1..Len(forwarded) /\ k \notin answered
  /\ answered' = answered \cup { k }
  /\ handleChromeMessage([type |-> "response", id |-> forwarded[k].id,
                          from |-> forwarded[k].from, to |-> NoPeer])
  /\ UNCHANGED << mcpClient, clients, forwarded >>
  /\ UNCHANGED notServerVars

\* Chrome's heartbeat
ChromePing ==
  /\ lastChrome.type # "ping"
  /\ handleChromeMessage([type |-> "ping", id |-> NoPeer, from |-> NoPeer, to |-> NoPeer])
  /\ UNCHANGED << mcpClient, clients, forwarded, answered >>
  /\ UNCHANGED notServerVars

ServerInit ==
  /\ CorrIdle
  /\ WireIdle
  /\ TabIdle
  /\ RefIdle
  /\ mcpClient = NoPeer
  /\ clients = [p \in Peers |-> "none"]
  /\ forwarded = << >>
  /\ answered = { }
  /\ received = [p \in Peers |-> << >>]
  /\ lastChrome = NoChrome

ServerNext ==
  \/ \E p \in Peers : SocketConnect(p)
  \/ \E p \in Peers : SocketData(p)
  \/ \E p \in Peers : SocketClose(p)
  \/ \E k \in 1..MaxReq : ChromeResponse(k)
  \/ ChromePing

SpecServer == ServerInit /\ [][ServerNext]_vars

(***************************************************************************)
(* BrowserManager and executeCommand (SpecTabs).  Calls are made one after *)
(* the other; each engine call a method makes may succeed or throw.        *)
(* A number that need not be an integer (a tab index taken from a command) *)
(* is kept in halves: H(n) stands for n, H(n) + 1 for n + 0.5.             *)
(***************************************************************************)
H(n) == 2 * n
IsInteger(x) == x % 2 = 0

\* array[x] for a number x: undefined unless x is an integer index of the array
Undefined == [id |-> 0, ctx |-> 0]
At(array, x) ==
  IF IsInteger(x) /\ x >= 0 /\ x < H(Len(array)) THEN array[(x \div 2) + 1] ELSE Undefined

\* the index arguments: the integers -1, 0, ..., MaxIndex, and 0.5
IndexArgs == { H(i) : i \in (0 - 1)..MaxIndex } \cup { H(0) + 1 }
\* closeTab(): the index left out
NoIndex == 0 - 1000
CmdIds == { "c1", "c2" }

NotLaunchedError == "Browser not launched"
InvalidIndexError == "Invalid tab index"
LastTabError == "Cannot close the last tab"
FrameNotFoundError == "Frame not found"
\* a method called on undefined
TypeError == "TypeError"
\* whatever the automation engine throws
EngineError == "engine error"

\* the manager's fields as one value
Manager ==
  [browser |-> browser, contexts |-> contexts, pages |-> pages,
   activePageIndex |-> activePageIndex, activeFrame |-> activeFrame,
   nextPage |-> nextPage, nextContext |-> nextContext]

\* a method returns a value, or throws, and leaves the manager as m
Return(m, v) == [m |-> m, throw |-> NoError, value |-> v, target |-> NoTarget]
Throw(m, e) == [m |-> m, throw |-> e, value |-> "none", target |-> NoTarget]

\* close(): failures of the engine's close calls are swallowed
close(m) ==
  [m EXCEPT !.pages = << >>, !.contexts = << >>, !.browser = NoBrowser,
            !.activePageIndex = 0]

\* launch(options); fail names the engine call that throws, if any
launch(m, fail) ==
  LET m0 == IF m.browser # NoBrowser THEN close(m) ELSE m
      m1 == [m0 EXCEPT !.browser = Live]
      m2 == [m1 EXCEPT !.contexts = Append(@, m1.nextContext),
                       !.nextContext = @ + 1]
      m3 == [m2 EXCEPT !.pages = Append(@, [id |-> m2.nextPage, ctx |-> m1.nextContext]),
                       !.nextPage = @ + 1,
                       !.activePageIndex = 0]
  IN IF fail = "launch" THEN Throw(m0, EngineError)
     ELSE IF fail = "newContext" THEN Throw(m1, EngineError)
     ELSE IF fail = "newPage" THEN Throw(m2, EngineError)
     ELSE Return(m3, "launched")

\* newTab()
newTab(m, fail) ==
  IF m.browser = NoBrowser \/ Len(m.contexts) = 0 THEN Throw(m, NotLaunchedError)
  ELSE IF fail = "newPage" THEN Throw(m, EngineError)
  ELSE LET m1 == [m EXCEPT !.pages = Append(@, [id |-> m.nextPage, ctx |-> m.contexts[1]]),
                           !.nextPage = @ + 1,
                           !.activePageIndex = H(Len(m.pages))]
       IN Return(m1, [index |-> m1.activePageIndex, total |-> Len(m1.pages)])

\* newWindow(viewport)
newWindow(m, fail) ==
  IF m.browser = NoBrowser THEN Throw(m, NotLaunchedError)
  ELSE IF fail = "newContext" THEN Throw(m, EngineError)
  ELSE LET m1 == [m EXCEPT !.contexts = Append(@, m.nextContext), !.nextContext = @ + 1]
           m2 == [m1 EXCEPT !.pages = Append(@, [id |-> m.nextPage, ctx |-> m.nextContext]),
                            !.nextPage = @ + 1,
                            !.activePageIndex = H(Len(m.pages))]
       IN IF fail = "newPage" THEN Throw(m1, EngineError)
          ELSE Return(m2, [index |-> m2.activePageIndex, total |-> Len(m2.pages)])

\* switchTo(index): the index is stored before pages[index].url() is evaluated
switchTo(m, index) ==
  IF index < 0 \/ index >= H(Len(m.pages)) THEN Throw(m, InvalidIndexError)
  ELSE LET m1 == [m EXCEPT !.activePageIndex = index]
       IN IF At(m.pages, index) = Undefined THEN Throw(m1, TypeError)
          ELSE Return(m1, [index |-> index])

\* (mutant) closeTab without the else-branch that follows the removed tab
closeTabNoShift(m, index, fail) ==
  LET targetIndex == IF index = NoIndex THEN m.activePageIndex ELSE index
      n == IF IsInteger(targetIndex) THEN (targetIndex \div 2) + 1 ELSE 0
      left == [k \in 1..(Len(m.pages) - 1) |-> IF k < n THEN m.pages[k] ELSE m.pages[k + 1]]
      adjusted == IF m.activePageIndex >= H(Len(left)) THEN H(Len(left) - 1)
                  ELSE m.activePageIndex
  IN IF targetIndex < 0 \/ targetIndex >= H(Len(m.pages)) THEN Throw(m, InvalidIndexError)
     ELSE IF Len(m.pages) = 1 THEN Throw(m, LastTabError)
     ELSE IF At(m.pages, targetIndex) = Undefined THEN Throw(m, TypeError)
     ELSE IF fail = "pageClose" THEN Throw(m, EngineError)
     ELSE Return([m EXCEPT !.pages = left, !.activePageIndex = adjusted],
                 [closed |-> targetIndex, remaining |-> Len(left)])

\* (mutant) closeTab without the branch that clamps the active index
closeTabNoClamp(m, index, fail) ==
  LET targetIndex == IF index = NoIndex THEN m.activePageIndex ELSE index
      n == IF IsInteger(targetIndex) THEN (targetIndex \div 2) + 1 ELSE 0
      left == [k \in 1..(Len(m.pages) - 1) |-> IF k < n THEN m.pages[k] ELSE m.pages[k + 1]]
      adjusted == IF m.activePageIndex > targetIndex THEN m.activePageIndex - H(1)
                  ELSE m.activePageIndex
  IN IF targetIndex < 0 \/ targetIndex >= H(Len(m.pages)) THEN Throw(m, InvalidIndexError)
     ELSE IF Len(m.pages) = 1 THEN Throw(m, LastTabError)
     ELSE IF At(m.pages, targetIndex) = Undefined THEN Throw(m, TypeError)
     ELSE IF fail = "pageClose" THEN Throw(m, EngineError)
     ELSE Return([m EXCEPT !.pages = left, !.activePageIndex = adjusted],
                 [closed |-> targetIndex, remaining |-> Len(left)])

\* (mutant) closeTab without the check for the last tab
closeTabAny(m, index, fail) ==
  LET targetIndex == IF index = NoIndex THEN m.activePageIndex ELSE index
      n == IF IsInteger(targetIndex) THEN (targetIndex \div 2) + 1 ELSE 0
      left == [k \in 1..(Len(m.pages) - 1) |-> IF k < n THEN m.pages[k] ELSE m.pages[k + 1]]
      adjusted == IF m.activePageIndex >= H(Len(left)) THEN H(Len(left) - 1)
                  ELSE IF m.activePageIndex > targetIndex THEN m.activePageIndex - H(1)
                  ELSE m.activePageIndex
  IN IF targetIndex < 0 \/ targetIndex >= H(Len(m.pages)) THEN Throw(m, InvalidIndexError)
     ELSE IF At(m.pages, targetIndex) = Undefined THEN Throw(m, TypeError)
     ELSE IF fail = "pageClose" THEN Throw(m, EngineError)
     ELSE Return([m EXCEPT !.pages = left, !.activePageIndex = adjusted],
                 [closed |-> targetIndex, remaining |-> Len(left)])

\* closeTab(index?): pages.splice(targetIndex, 1) with an integer targetIndex removes
\* the page at that index
closeTab(m, index, fail) ==
  LET targetIndex == IF index = NoIndex THEN m.activePageIndex ELSE index
      n == IF IsInteger(targetIndex) THEN (targetIndex \div 2) + 1 ELSE 0
      left == [k \in 1..(Len(m.pages) - 1) |-> IF k < n THEN m.pages[k] ELSE m.pages[k + 1]]
      adjusted == IF m.activePageIndex >= H(Len(left)) THEN H(Len(left) - 1)
                  ELSE IF m.activePageIndex > targetIndex THEN m.activePageIndex - H(1)
                  ELSE m.activePageIndex
  IN IF targetIndex < 0 \/ targetIndex >= H(Len(m.pages)) THEN Throw(m, InvalidIndexError)
     ELSE IF Len(m.pages) = 1 THEN Throw(m, LastTabError)
     ELSE IF At(m.pages, targetIndex) = Undefined THEN Throw(m, TypeError)
     ELSE IF fail = "pageClose" THEN Throw(m, EngineError)
     ELSE Return([m EXCEPT !.pages = left, !.activePageIndex = adjusted],
                 [closed |-> targetIndex, remaining |-> Len(left)])

\* getPage()
getPage(m) ==
  IF Len(m.pages) = 0 THEN Throw(m, NotLaunchedError)
  ELSE Return(m, At(m.pages, m.activePageIndex))

\* switchToFrame({selector}): the frame the selector finds in the active page
switchToFrame(m, fail) ==
  LET page == getPage(m)
  IN IF page.throw # NoError THEN page
     ELSE IF page.value = Undefined THEN Throw(m, TypeError)
     ELSE IF fail = "frame" THEN Throw(m, FrameNotFoundError)
     ELSE Return([m EXCEPT !.activeFrame = page.value.id], "switched")

\* switchToMainFrame()
switchToMainFrame(m) == [m EXCEPT !.activeFrame = NoFrame]

\* getFrame(): the active frame, else the main frame of the active page
getFrame(m) ==
  LET page == getPage(m)
  IN IF m.activeFrame # NoFrame THEN Return(m, FrameIn(m.activeFrame))
     ELSE IF page.throw # NoError THEN page
     ELSE IF page.value = Undefined THEN Throw(m, TypeError)
     ELSE Return(m, MainFrameOf(page.value.id))

\* an engine call on a selector of the frame: it throws, or acts in that frame
OnFrame(m, frame, fail, done) ==
  IF fail = "element" THEN [Throw(m, EngineError) EXCEPT !.target = frame]
  ELSE [Return(m, done) EXCEPT !.target = frame]

\* handleClick, handleType, handlePress, handleSelect, handleHover:
\* browser.getPage(), then page.click(selector, ...) and the like, which act in
\* the main frame of the page
handleOnPage(c, m, fail) ==
  LET page == getPage(m)
  IN IF page.throw # NoError THEN page
     ELSE IF page.value = Undefined THEN Throw(m, TypeError)
     ELSE OnFrame(m, MainFrameOf(page.value.id), fail, c.action)

\* handleFill, handleCheck, handleUncheck, handleUpload, handleDoubleClick,
\* handleFocus, handleDrag: browser.getFrame(), then frame.fill(selector, ...) and
\* the like
handleOnFrame(c, m, fail) ==
  LET frame == getFrame(m)
  IN IF frame.throw # NoError THEN frame
     ELSE OnFrame(m, frame.value, fail, c.action)

\* handleTabSwitch: switchTo, then getPage().title()
handleTabSwitch(c, m, fail) ==
  LET result == switchTo(m, c.index)
      page == getPage(result.m)
  IN IF result.throw # NoError THEN result
     ELSE IF page.throw # NoError THEN page
     ELSE IF page.value = Undefined THEN Throw(result.m, TypeError)
     ELSE IF fail = "title" THEN Throw(result.m, EngineError)
     ELSE result

\* the handler executeCommand's switch selects
handler(c, m, fail) ==
  CASE c.action = "launch" -> launch(m, fail)
    [] c.action = "close" -> Return(close(m), "closed")
    [] c.action = "tab_new" -> newTab(m, fail)
    [] c.action = "window_new" -> newWindow(m, fail)
    [] c.action = "tab_switch" -> handleTabSwitch(c, m, fail)
    [] c.action = "tab_close" -> closeTab(m, c.index, fail)
    [] c.action = "frame" -> switchToFrame(m, fail)
    [] c.action = "mainframe" -> Return(switchToMainFrame(m), "switched")
    [] c.action \in { "click", "type", "press", "select", "hover" } ->
         handleOnPage(c, m, fail)
    [] c.action \in { "fill", "check", "uncheck", "upload", "dblclick", "focus", "drag" } ->
         handleOnFrame(c, m, fail)

successResponse(id, data) == [id |-> id, success |-> TRUE, data |-> data]
errorResponse(id, error) == [id |-> id, success |-> FALSE, error |-> error]

\* (mutant) executeCommand without its try/catch: the rejection reaches the caller
executeCommandNoCatch(c, m, fail) ==
  LET r == handler(c, m, fail)
  IN [m |-> r.m, raised |-> r.throw, issued |-> r.target,
      response |-> IF r.throw = NoError THEN successResponse(c.id, r.value)
                   ELSE NoResponse]

\* executeCommand(command, browser)
executeCommand(c, m, fail) ==
  LET r == handler(c, m, fail)
  IN [m |-> r.m, raised |-> r.throw, issued |-> r.target,
      response |-> IF r.throw = NoError THEN successResponse(c.id, r.value)
                   ELSE errorResponse(c.id, r.throw)]

\* one call of executeCommand and what it leaves behind
Execute(c, fail) ==
  \E r \in { executeCommand(c, Manager, fail) } :
     /\ browser' = r.m.browser
     /\ contexts' = r.m.contexts
     /\ pages' = r.m.pages
     /\ activePageIndex' = r.m.activePageIndex
     /\ activeFrame' = r.m.activeFrame
     /\ nextPage' = r.m.nextPage
     /\ nextContext' = r.m.nextContext
     /\ command' = c
     /\ raised' = r.raised
     /\ returned' = r.response
     /\ fractional' = (fractional \/ (c.index # NoIndex /\ ~IsInteger(c.index)))
     /\ issued' = r.issued
     /\ UNCHANGED notTabVars

Command(id, action, index) == [id |-> id, action |-> action, index |-> index]

Launch(id, fail) ==
  /\ nextPage <= MaxPages /\ nextContext <= MaxContexts
  /\ Execute(Command(id, "launch", NoIndex), fail)

Close(id) ==
  /\ Execute(Command(id, "close", NoIndex), "none")

TabNew(id, fail) ==
  /\ nextPage <= MaxPages
  /\ Execute(Command(id, "tab_new", NoIndex), fail)

WindowNew(id, fail) ==
  /\ nextPage <= MaxPages /\ nextContext <= MaxContexts
  /\ Execute(Command(id, "window_new", NoIndex), fail)

TabSwitch(id, index, fail) ==
  /\ Execute(Command(id, "tab_switch", index), fail)

TabClose(id, index, fail) ==
  /\ Execute(Command(id, "tab_close", index), fail)

Frame(id, fail) ==
  /\ Execute(Command(id, "frame", NoIndex), fail)

MainFrame(id) ==
  /\ Execute(Command(id, "mainframe", NoIndex), "none")

\* the commands that act on an element by its selector (press: with a selector)
ElementActions ==
  { "click", "type", "fill", "check", "uncheck", "dblclick", "focus", "drag", "upload",
    "hover", "select", "press" }

OnElement(id, action, fail) ==
  /\ Execute(Command(id, action, NoIndex), fail)

TabInit ==
  /\ CorrIdle
  /\ WireIdle
  /\ TabIdle
  /\ ServerIdle
  /\ RefIdle

\* the ids a caller gives its next command: a command never repeats the id of the
\* one before it
NextIds == CmdIds \ { command.id }

TabNext ==
  \/ \E id \in NextIds, fail \in { "none", "launch", "newContext", "newPage" } :
        Launch(id, fail)
  \/ \E id \in NextIds : Close(id)
  \/ \E id \in NextIds, fail \in { "none", "newPage" } : TabNew(id, fail)
  \/ \E id \in NextIds, fail \in { "none", "newContext", "newPage" } : WindowNew(id, fail)
  \/ \E id \in NextIds, index \in IndexArgs, fail \in { "none", "title" } :
        TabSwitch(id, index, fail)
  \/ \E id \in NextIds, index \in IndexArgs \cup { NoIndex }, fail \in { "none", "pageClose" } :
        TabClose(id, index, fail)
  \/ \E id \in NextIds, fail \in { "none", "frame" } : Frame(id, fail)
  \/ \E id \in NextIds : MainFrame(id)

SpecTabs == TabInit /\ [][TabNext]_vars

\* SpecFrames: the commands that choose the page and the frame, and the commands
\* that act on an element; of the engine's calls only those of frame and of the
\* element commands throw
FrameNext ==
  \/ \E id \in NextIds : Launch(id, "none")
  \/ \E id \in NextIds : Close(id)
  \/ \E id \in NextIds : TabNew(id, "none")
  \/ \E id \in NextIds, index \in IndexArgs : TabSwitch(id, index, "none")
  \/ \E id \in NextIds, index \in IndexArgs \cup { NoIndex } : TabClose(id, index, "none")
  \/ \E id \in NextIds, fail \in { "none", "frame" } : Frame(id, fail)
  \/ \E id \in NextIds : MainFrame(id)
  \/ \E id \in NextIds, action \in ElementActions, fail \in { "none", "element" } :
        OnElement(id, action, fail)

SpecFrames == TabInit /\ [][FrameNext]_vars

(***************************************************************************)
(* The native host's main loop and the end of its stdin (SpecLoop).       *)
(* readMessage attaches its 'end' listener when it is called and removes   *)
(* it when it settles; while a command is handled stdin has no listener.   *)
(***************************************************************************)
\* process.stdin emits 'end' (once): onEnd rejects readMessage with 'stdin closed'
\* and main leaves its loop, if readMessage is waiting; no listener hears it if a
\* command is being handled
StdinEnd ==
  /\ sys = "host" /\ hostPc # "exit" /\ ~stdinEnded
  /\ stdinEnded' = TRUE
  /\ hostPc' = IF hostPc = "read" THEN "exit" ELSE hostPc
  /\ lastEvent' = Other
  /\ lastWrite' = << >>
  /\ stdout' = Quiet(stdout)
  /\ UNCHANGED << sys, now, nextId, pendingRequests, timers, settle, extensionSocket, sock,
                  messageQueue, wire, cmd, hostProcess, socket >>
  /\ UNCHANGED << wireVars, tabVars, refVars, serverVars, overlapVars, dialogVars >>

LoopInit == Init /\ sys = "host"

\* stdin delivers commands until its end; the peers and the clock go on
LoopNext ==
  \/ ~stdinEnded /\ \E type \in CmdTypes, text \in Texts : HostCommand(type, text)
  \/ ~stdinEnded /\ HostReadError
  \/ StdinEnd
  \/ \E p \in Peers : ExtConnect(p)
  \/ \E p \in Peers : ExtDestroy(p)
  \/ \E p \in Peers : ExtClose(p)
  \/ \E p \in Peers, i \in Requests \cup { UnknownId, NoId }, err \in BOOLEAN,
        text \in ReplyTexts : ExtData(p, i, err, text)
  \/ \E r \in Requests : HostTimerFire(r)
  \/ Tick

\* the clock advances and due timers fire
SpecLoop == LoopInit /\ [][LoopNext]_vars /\ WF_vars(Tick) /\ WF_vars(TimerFire)

(***************************************************************************)
(* Manager calls of several client connections (SpecOverlap).  A call      *)
(* that awaits the engine gives way at the await: closeTab at page.close(),*)
(* newTab at context.newPage().  The command of another connection may    *)
(* run up to its own await before the first call goes on.                  *)
(***************************************************************************)
notOverlapVars ==
  << corrVars, wireVars, refVars, serverVars, dialogVars, loopVars, browser, contexts, activeFrame,
     nextContext, command, raised, returned, fractional, issued >>

\* the connections whose call is at its await
Awaiting == { c \in Conns : inflight[c].settled = "awaiting" }

\* a call of connection c begins: it is no longer the call another call began during
Begun(c, call) ==
  [d \in Conns |-> IF d = c THEN call
                   ELSE [inflight[d] EXCEPT !.during = @ \ { c }]]

\* closeTab(index) up to await page.close(): the checks, and the page taken
CloseTabCall(c, index) ==
  /\ inflight[c].settled # "awaiting"
  /\ LET targetIndex == IF index = NoIndex THEN activePageIndex ELSE index
         call == [op |-> "closeTab", targetIndex |-> targetIndex,
                  page |-> At(pages, targetIndex).id, total |-> Len(pages),
                  settled |-> "awaiting", during |-> Awaiting \ { c }]
     IN inflight' =
          Begun(c, IF \/ targetIndex < 0 \/ targetIndex >= H(Len(pages))
                      \/ Len(pages) = 1
                   THEN [call EXCEPT !.settled = "rejected"]
                   ELSE call)
  /\ UNCHANGED << pages, activePageIndex, nextPage >>
  /\ UNCHANGED notOverlapVars

\* closeTab after await page.close(): the splice at targetIndex, the active index
CloseTabResume(c, fail) ==
  /\ inflight[c].op = "closeTab" /\ inflight[c].settled = "awaiting"
  /\ IF fail = "pageClose"
     THEN /\ inflight' = [inflight EXCEPT ![c].settled = "rejected"]
          /\ UNCHANGED << pages, activePageIndex >>
     ELSE LET n == (inflight[c].targetIndex \div 2) + 1
              left == IF n > Len(pages) THEN pages
                      ELSE [k \in 1..(Len(pages) - 1) |->
                              IF k < n THEN pages[k] ELSE pages[k + 1]]
          IN /\ pages' = left
             /\ activePageIndex' =
                  IF activePageIndex >= H(Len(left)) THEN H(Len(left) - 1)
                  ELSE IF activePageIndex > inflight[c].targetIndex
                       THEN activePageIndex - H(1)
                  ELSE activePageIndex
             /\ inflight' = [inflight EXCEPT ![c].settled = "fulfilled"]
  /\ UNCHANGED nextPage
  /\ UNCHANGED notOverlapVars

\* newTab() up to await context.newPage()
NewTabCall(c) ==
  /\ inflight[c].settled # "awaiting"
  /\ nextPage <= MaxPages
  /\ LET call == [op |-> "newTab", targetIndex |-> NoIndex, page |-> nextPage,
                  total |-> Len(pages), settled |-> "awaiting",
                  during |-> Awaiting \ { c }]
     IN IF browser = NoBrowser \/ Len(contexts) = 0
        THEN /\ inflight' = Begun(c, [call EXCEPT !.settled = "rejected", !.page = 0])
             /\ UNCHANGED nextPage
        ELSE /\ inflight' = Begun(c, call)
             /\ nextPage' = nextPage + 1
  /\ UNCHANGED << pages, activePageIndex >>
  /\ UNCHANGED notOverlapVars

\* newTab after await context.newPage(): the push, the active index
NewTabResume(c, fail) ==
  /\ inflight[c].op = "newTab" /\ inflight[c].settled = "awaiting"
  /\ IF fail = "newPage"
     THEN /\ inflight' = [inflight EXCEPT ![c].settled = "rejected"]
          /\ UNCHANGED << pages, activePageIndex >>
     ELSE /\ pages' = Append(pages, [id |-> inflight[c].page, ctx |-> contexts[1]])
          /\ activePageIndex' = H(Len(pages))
          /\ inflight' = [inflight EXCEPT ![c].settled = "fulfilled"]
  /\ UNCHANGED nextPage
  /\ UNCHANGED notOverlapVars

\* the browser is launched before the connections send their tab commands
OverlapLaunch(id) ==
  /\ browser = NoBrowser
  /\ Launch(id, "none")

OverlapNext ==
  \/ \E id \in NextIds : OverlapLaunch(id)
  \/ \E c \in Conns, index \in { H(i) : i \in 0..MaxIndex } \cup { NoIndex } :
        CloseTabCall(c, index)
  \/ \E c \in Conns, fail \in { "none", "pageClose" } : CloseTabResume(c, fail)
  \/ \E c \in Conns : NewTabCall(c)
  \/ \E c \in Conns, fail \in { "none", "newPage" } : NewTabResume(c, fail)

SpecOverlap == TabInit /\ [][OverlapNext]_vars

(***************************************************************************)
(* The dialog handler (SpecDialog).  Each dialog command makes a new       *)
(* handler function; a page's 'dialog' listeners are the handlers attached *)
(* to it with page.on and not removed with page.removeListener.            *)
(***************************************************************************)
notDialogVars ==
  << corrVars, wireVars, refVars, serverVars, overlapVars, loopVars, browser, contexts, pages,
     activePageIndex, activeFrame, nextPage, nextContext, fractional, issued >>

\* page.removeListener('dialog', h), page.on('dialog', h)
removeListener(on, page, h) == [on EXCEPT ![page.id] = @ \ { h }]
addListener(on, page, h) == [on EXCEPT ![page.id] = @ \cup { h }]

\* setDialogHandler(response, promptText): the manager's dialog fields afterwards,
\* and what it threw
setDialogHandler(m, d) ==
  LET r == getPage(m)
      page == r.value
  IN IF r.throw # NoError THEN [d |-> d, throw |-> r.throw]
     ELSE IF d.dialogHandler # NoHandler /\ page = Undefined
     THEN [d |-> d, throw |-> TypeError]
     ELSE LET removed == IF d.dialogHandler # NoHandler
                         THEN removeListener(d.listeners, page, d.dialogHandler)
                         ELSE d.listeners
              made == [d EXCEPT !.dialogHandler = d.nextHandler,
                                !.nextHandler = @ + 1,
                                !.listeners = removed]
          IN IF page = Undefined THEN [d |-> made, throw |-> TypeError]
             ELSE [d |-> [made EXCEPT !.listeners =
                                    addListener(removed, page, d.nextHandler)],
                   throw |-> NoError]

\* clearDialogHandler()
clearDialogHandler(m, d) ==
  LET r == getPage(m)
      page == r.value
  IN IF d.dialogHandler = NoHandler THEN [d |-> d, throw |-> NoError]
     ELSE IF r.throw # NoError THEN [d |-> d, throw |-> r.throw]
     ELSE IF page = Undefined THEN [d |-> d, throw |-> TypeError]
     ELSE [d |-> [d EXCEPT !.listeners = removeListener(@, page, d.dialogHandler),
                           !.dialogHandler = NoHandler],
           throw |-> NoError]

\* the manager's dialog fields as one value
Dialogs ==
  [dialogHandler |-> dialogHandler, listeners |-> listeners, nextHandler |-> nextHandler]

\* executeCommand of a dialog command: handleDialog
Dialog(id, response) ==
  /\ nextHandler <= MaxHandlers
  /\ \E r \in { setDialogHandler(Manager, Dialogs) } :
       /\ dialogHandler' = r.d.dialogHandler
       /\ listeners' = r.d.listeners
       /\ nextHandler' = r.d.nextHandler
       /\ command' = Command(id, "dialog", NoIndex)
       /\ raised' = r.throw
       /\ returned' = IF r.throw = NoError
                      THEN successResponse(id, [handler |-> "set", response |-> response])
                      ELSE errorResponse(id, r.throw)
  /\ UNCHANGED notDialogVars

\* a call of clearDialogHandler()
ClearDialogHandler ==
  /\ command.action # "clearDialogHandler"
  /\ \E r \in { clearDialogHandler(Manager, Dialogs) } :
       /\ dialogHandler' = r.d.dialogHandler
       /\ listeners' = r.d.listeners
       /\ nextHandler' = r.d.nextHandler
       /\ command' = Command("none", "clearDialogHandler", NoIndex)
       /\ raised' = r.throw
       /\ returned' = NoResponse
  /\ UNCHANGED notDialogVars

DialogNext ==
  \/ \E id \in NextIds : Launch(id, "none")
  \/ \E id \in NextIds : TabNew(id, "none")
  \/ \E id \in NextIds : WindowNew(id, "none")
  \/ \E id \in NextIds, index \in IndexArgs : TabSwitch(id, index, "none")
  \/ \E id \in NextIds, index \in IndexArgs \cup { NoIndex } : TabClose(id, index, "none")
  \/ \E id \in NextIds, response \in { "accept", "dismiss" } : Dialog(id, response)
  \/ ClearDialogHandler

SpecDialog == TabInit /\ [][DialogNext]_vars

(***************************************************************************)
(* The page (script = "snapshot-browser" or "content"): a document, the    *)
(* accessibility snapshot engine of snapshot-browser.js and the content    *)
(* script of content.js.  The document is                                  *)
(*   <body> <li/> <button>OK</button> <h1>Title</h1>                       *)
(*          <a role="button">OK</a> </body>                                *)
(* with <button>, <h1> and <a> either in <body> or in <li>.  An element is *)
(* named by its local name (there is one element of each tag).  Elements   *)
(* can be removed; one of <li> and <a> is styled display: none.  Every     *)
(* element that is displayed has a box of non-zero size.                   *)
(***************************************************************************)
Body == "body"
\* the elements below <body>, in document order among siblings
Order == << "li", "button", "h1", "a" >>
Elements == { Body } \cup { Order[i] : i \in 1..Len(Order) }

\* element.tagName
tagName(el) ==
  CASE el = "body" -> "BODY"
    [] el = "li" -> "LI"
    [] el = "button" -> "BUTTON"
    [] el = "h1" -> "H1"
    [] el = "a" -> "A"

\* element.getAttribute(name) / hasAttribute(name): only <a role="button"> has one
getAttribute(el, name) ==
  IF el = "a" /\ name = "role" THEN "button" ELSE NotGiven

\* the text nodes that are children of the element itself
ownText(el) ==
  CASE el = "button" -> "OK"
    [] el = "a" -> "OK"
    [] el = "h1" -> "Title"
    [] OTHER -> ""

\* node.children
children(el) == SelectSeq(Order, LAMBDA c : parentNode[c] = el)

\* node.isConnected: the element is in the document
RECURSIVE isConnected(_)
isConnected(el) ==
  \/ el = Body
  \/ /\ parentNode[el] # NoNode
     /\ isConnected(parentNode[el])

\* the elements of the subtree of el in depth-first pre-order
RECURSIVE preorder(_)
preorder(el) ==
  LET kids == children(el)
      below[i \in 0..Len(kids)] ==
        IF i = 0 THEN << >> ELSE below[i - 1] \o preorder(kids[i])
  IN << el >> \o below[Len(kids)]

\* element.textContent: the text of the element and of its descendants
RECURSIVE textContent(_)
textContent(el) ==
  LET kids == children(el)
      text[i \in 0..Len(kids)] ==
        IF i = 0 THEN ownText(el) ELSE text[i - 1] \o textContent(kids[i])
  IN text[Len(kids)]

\* getBoundingClientRect() is not all zero: the element is in the document and
\* neither it nor an ancestor is display: none
RECURSIVE hasBox(_)
hasBox(el) ==
  /\ el \notin displayNone
  /\ \/ el = Body
     \/ /\ parentNode[el] # NoNode
        /\ hasBox(parentNode[el])

\* the first element of a list of matches, or NoNode for null
FirstOf(hits) == IF hits = << >> THEN NoNode ELSE hits[1]

\* document.querySelector(selector) for a type selector
querySelector(selector) ==
  FirstOf(SelectSeq(preorder(Body), LAMBDA el : el = selector))

\* document.evaluate('//*[contains(text(), "t")]', ... FIRST_ORDERED_NODE_TYPE):
\* the first element in document order whose own text contains t (the texts of
\* this document contain t only when they are t)
documentEvaluate(t) ==
  FirstOf(SelectSeq(preorder(Body), LAMBDA el : ownText(el) = t))

\* -- snapshot-browser.js -------------------------------------------------------
INTERACTIVE_ROLES ==
  { "button", "link", "textbox", "checkbox", "radio", "combobox", "listbox",
    "menuitem", "menuitemcheckbox", "menuitemradio", "option", "searchbox", "slider",
    "spinbutton", "switch", "tab", "treeitem" }

CONTENT_ROLES ==
  { "heading", "cell", "gridcell", "columnheader", "rowheader", "listitem", "article",
    "region", "main", "navigation" }

STRUCTURAL_ROLES ==
  { "generic", "group", "list", "table", "row", "rowgroup", "grid", "treegrid", "menu",
    "menubar", "toolbar", "tablist", "tree", "directory", "document", "application",
    "presentation", "none" }

\* TAG_ROLES[tag], NotGiven for a tag without an entry (the tags of this document)
TAG_ROLES(tag) ==
  CASE tag = "BUTTON" -> "button"
    [] tag = "A" -> "link"
    [] tag = "H1" -> "heading"
    [] tag = "LI" -> "listitem"
    [] OTHER -> NotGiven

\* getRole: the role attribute, else by tag (the document has no <input>)
getRole(element) ==
  LET explicitRole == getAttribute(element, "role")
  IN IF explicitRole # NotGiven THEN explicitRole
     ELSE IF tagName(element) = "A"
       THEN (IF getAttribute(element, "href") # NotGiven THEN "link" ELSE "generic")
     ELSE IF TAG_ROLES(tagName(element)) # NotGiven THEN TAG_ROLES(tagName(element))
     ELSE "generic"

\* getTextContent: textContent, trimmed (the texts here are short, without blanks)
getTextContent(element) == textContent(element)

\* getAccessibleName: the document has no aria-label, aria-labelledby, title or alt,
\* so the name is the text content for the roles that are named by it
getAccessibleName(element) ==
  LET role == getRole(element)
  IN IF role \in { "button", "link", "tab", "menuitem" } THEN getTextContent(element)
     ELSE IF role \in CONTENT_ROLES THEN getTextContent(element)
     ELSE ""

\* isVisible: not display: none, and not an empty box without children
isVisible(element) ==
  /\ element \notin displayNone
  /\ ~(~hasBox(element) /\ Len(children(element)) = 0)

\* -- text of the snapshot engine: a string is a sequence of characters -----------
\* the strings of this document and of the engine, character by character
Spell(s) ==
  CASE s = "" -> << >>
    [] s = "generic" -> << "g", "e", "n", "e", "r", "i", "c" >>
    [] s = "listitem" -> << "l", "i", "s", "t", "i", "t", "e", "m" >>
    [] s = "button" -> << "b", "u", "t", "t", "o", "n" >>
    [] s = "heading" -> << "h", "e", "a", "d", "i", "n", "g" >>
    [] s = "link" -> << "l", "i", "n", "k" >>
    [] s = "img" -> << "i", "m", "g" >>
    [] s = "OK" -> << "O", "K" >>
    [] s = "Title" -> << "T", "i", "t", "l", "e" >>
    [] s = "a:b" -> << "a", ":", "b" >>
    [] s = "ref=" -> << "r", "e", "f", "=" >>
    [] s = "[ref=" -> << "[", "r", "e", "f", "=" >>
    [] s = " [ref=" -> << " ", "[", "r", "e", "f", "=" >>
    [] s = " [nth=" -> << " ", "[", "n", "t", "h", "=" >>
    [] s = " [level=" -> << " ", "[", "l", "e", "v", "e", "l", "=" >>
    [] s = "(empty)" -> << "(", "e", "m", "p", "t", "y", ")" >>
    [] s = "(no interactive elements)" ->
         << "(", "n", "o", " ", "i", "n", "t", "e", "r", "a", "c", "t", "i", "v", "e",
            " ", "e", "l", "e", "m", "e", "n", "t", "s", ")" >>

\* a number in decimal, as `${n}` writes it
RECURSIVE Decimal(_)
Decimal(n) ==
  LET digit(d) == << "0", "1", "2", "3", "4", "5", "6", "7", "8", "9" >>[d + 1]
  IN IF n < 10 THEN << digit(n) >> ELSE Decimal(n \div 10) \o << digit(n % 10) >>

\* string.startsWith(prefix), endsWith(suffix), includes(part), slice(from)
startsWith(s, prefix) ==
  Len(s) >= Len(prefix) /\ SubSeq(s, 1, Len(prefix)) = prefix
endsWith(s, suffix) ==
  Len(s) >= Len(suffix) /\ SubSeq(s, Len(s) - Len(suffix) + 1, Len(s)) = suffix
includes(s, part) ==
  \E i \in 0..(Len(s) - Len(part)) : SubSeq(s, i + 1, i + Len(part)) = part
slice(s, from) == SubSeq(s, from + 1, Len(s))

\* '  '.repeat(depth)
RECURSIVE repeat(_, _)
repeat(s, count) == IF count = 0 THEN << >> ELSE s \o repeat(s, count - 1)

\* lines.join('\n')
RECURSIVE joinLines(_)
joinLines(lines) ==
  IF lines = << >> THEN << >>
  ELSE IF Len(lines) = 1 THEN lines[1]
  ELSE lines[1] \o << "\n" >> \o joinLines(Tail(lines))

\* tree.split('\n')
RECURSIVE splitLines(_)
splitLines(text) ==
  LET breaks == { i \in 1..Len(text) : text[i] = "\n" }
      first == CHOOSE i \in breaks : \A j \in breaks : i <= j
  IN IF breaks = { } THEN << text >>
     ELSE << SubSeq(text, 1, first - 1) >> \o splitLines(slice(text, first))

\* element.textContent, character by character
RECURSIVE textChars(_)
textChars(el) ==
  LET kids == children(el)
      text[i \in 0..Len(kids)] ==
        IF i = 0 THEN Spell(ownText(el)) ELSE text[i - 1] \o textChars(kids[i])
  IN text[Len(kids)]

\* getExtraAttributes: the heading level of <h1> .. <h6> (the document has no
\* aria-* states, no disabled and no required elements)
getExtraAttributes(element, role) ==
  IF role = "heading" /\ tagName(element) = "H1"
  THEN Spell(" [level=") \o Decimal(1) \o << "]" >>
  ELSE << >>

renderLineShowsZero(depth, role, name, ref, nth, extra) ==
  repeat(<< " ", " " >>, depth) \o << "-", " " >> \o role
    \o (IF name # << >> THEN << " ", "\"" >> \o name \o << "\"" >> ELSE << >>)
    \o (IF ref # << >>
        THEN Spell(" [ref=") \o ref \o << "]" >> \o Spell(" [nth=") \o Decimal(nth)
               \o << "]" >>
        ELSE << >>)
    \o extra

\* the line of a node: `${indent}- ${role}`, ` "${name}"`, ` [ref=${ref}]`,
\* ` [nth=${nth}]` for nth > 0, and the extra attributes; ref is << >> for no ref
renderLine(depth, role, name, ref, nth, extra) ==
  repeat(<< " ", " " >>, depth) \o << "-", " " >> \o role
    \o (IF name # << >> THEN << " ", "\"" >> \o name \o << "\"" >> ELSE << >>)
    \o (IF ref # << >>
        THEN Spell(" [ref=") \o ref \o << "]" >>
               \o (IF nth > 0 THEN Spell(" [nth=") \o Decimal(nth) \o << "]" >>
                   ELSE << >>)
        ELSE << >>)
    \o extra

\* getIndentLevel: half the number of leading white-space characters, rounded down
getIndentLevel(line) ==
  LET blank(c) == c \in { " ", "\n", "\t" }
      others == { i \in 1..Len(line) : ~blank(line[i]) }
      leading == IF others = { } THEN Len(line)
                 ELSE (CHOOSE i \in others : \A j \in others : i <= j) - 1
  IN leading \div 2

\* compactTree: the lines with a ref, the lines with a ':' that is not their last
\* character, and the lines followed by a deeper line with a ref before the indent
\* returns to theirs
compactTree(tree) ==
  LET lines == splitLines(tree)
      hasRef(i) == includes(lines[i], Spell("[ref="))
      hasRelevantChildren(i) ==
        LET currentIndent == getIndentLevel(lines[i])
            stops == { j \in (i + 1)..Len(lines) :
                         getIndentLevel(lines[j]) <= currentIndent }
            stop == IF stops = { } THEN Len(lines) + 1
                    ELSE CHOOSE j \in stops : \A k \in stops : j <= k
        IN \E j \in (i + 1)..(stop - 1) : hasRef(j)
      keep(i) ==
        \/ hasRef(i)
        \/ includes(lines[i], << ":" >>) /\ ~endsWith(lines[i], << ":" >>)
        \/ hasRelevantChildren(i)
      kept == { i \in 1..Len(lines) : keep(i) }
      result[i \in 0..Len(lines)] ==
        IF i = 0 THEN << >>
        ELSE IF i \in kept THEN Append(result[i - 1], lines[i]) ELSE result[i - 1]
  IN joinLines(result[Len(lines)])

\* the ref `e${n}`
Ref(n) == "e" \o ToString(n)

resetRefsKeepsCounter(engine) == [engine EXCEPT !.refMap = EmptyMap]

\* resetRefs() on the engine's state (refCounter, refMap)
resetRefs(engine) == [engine EXCEPT !.refCounter = 0, !.refMap = EmptyMap]

\* tracker.getKey
getKey(role, name) == role \o ":" \o name

\* buildSelector
buildSelector(role, name) ==
  IF name # ""
  THEN "getByRole('" \o role \o "', { name: \"" \o name \o "\", exact: true })"
  ELSE "getByRole('" \o role \o "')"

\* map.get(key) ?? dflt
GetOr(map, key, dflt) == IF key \in DOMAIN map THEN map[key] ELSE dflt

\* processNode(node, depth) on the state st of one buildSnapshot call: the engine's
\* refCounter and refMap, and the call's refs, lines and tracker (counts, refsByKey)
RECURSIVE processNodeCuts(_, _, _, _)
processNodeCuts(st, node, depth, options) ==
  LET role == getRole(node)
      name == getAccessibleName(node)
      isInteractive == role \in INTERACTIVE_ROLES
      isContent == role \in CONTENT_ROLES
      isStructural == role \in STRUCTURAL_ROLES
      kids == children(node)
      \* for (const child of node.children) processNodeCuts(child, d)
      forChildren(s0, d) ==
        LET run[i \in 0..Len(kids)] ==
              IF i = 0 THEN s0 ELSE processNodeCuts(run[i - 1], kids[i], d, options)
        IN run[Len(kids)]
      shouldHaveRef == isInteractive \/ (isContent /\ name # "")
      \* nextRef()
      ref == Ref(st.refCounter + 1)
      key == getKey(role, name)
      \* tracker.getNextIndex
      nth == GetOr(st.counts, key, 0)
      withRef ==
        [st EXCEPT !.refCounter = @ + 1,
                   !.counts = (key :> (nth + 1)) @@ @,
                   !.refsByKey = (key :> Append(GetOr(@, key, << >>), ref)) @@ @,
                   !.refs = (ref :> [selector |-> buildSelector(role, name),
                                     role |-> role, name |-> name, nth |-> nth]) @@ @,
                   !.refMap = (ref :> node) @@ @]
      s1 == IF shouldHaveRef THEN withRef ELSE st
      \* a name of this document is the element's text content
      line == renderLine(depth, Spell(role),
                         IF name = "" THEN << >> ELSE textChars(node),
                         IF shouldHaveRef THEN << "e" >> \o Decimal(st.refCounter + 1)
                         ELSE << >>,
                         nth, getExtraAttributes(node, role))
  IN IF ~isVisible(node) THEN st
     ELSE IF options.maxDepth # NoDepth /\ depth > options.maxDepth THEN st
     ELSE IF options.interactive /\ ~isInteractive THEN st
     ELSE IF options.compact /\ isStructural /\ name = "" THEN st
     ELSE forChildren([s1 EXCEPT !.lines = Append(@, line)], depth + 1)

RECURSIVE processNode(_, _, _, _)
processNode(st, node, depth, options) ==
  LET role == getRole(node)
      name == getAccessibleName(node)
      isInteractive == role \in INTERACTIVE_ROLES
      isContent == role \in CONTENT_ROLES
      isStructural == role \in STRUCTURAL_ROLES
      kids == children(node)
      \* for (const child of node.children) processNode(child, d)
      forChildren(s0, d) ==
        LET run[i \in 0..Len(kids)] ==
              IF i = 0 THEN s0 ELSE processNode(run[i - 1], kids[i], d, options)
        IN run[Len(kids)]
      shouldHaveRef == isInteractive \/ (isContent /\ name # "")
      \* nextRef()
      ref == Ref(st.refCounter + 1)
      key == getKey(role, name)
      \* tracker.getNextIndex
      nth == GetOr(st.counts, key, 0)
      withRef ==
        [st EXCEPT !.refCounter = @ + 1,
                   !.counts = (key :> (nth + 1)) @@ @,
                   !.refsByKey = (key :> Append(GetOr(@, key, << >>), ref)) @@ @,
                   !.refs = (ref :> [selector |-> buildSelector(role, name),
                                     role |-> role, name |-> name, nth |-> nth]) @@ @,
                   !.refMap = (ref :> node) @@ @]
      s1 == IF shouldHaveRef THEN withRef ELSE st
      \* a name of this document is the element's text content
      line == renderLine(depth, Spell(role),
                         IF name = "" THEN << >> ELSE textChars(node),
                         IF shouldHaveRef THEN << "e" >> \o Decimal(st.refCounter + 1)
                         ELSE << >>,
                         nth, getExtraAttributes(node, role))
  IN IF ~isVisible(node) THEN st
     ELSE IF options.maxDepth # NoDepth /\ depth > options.maxDepth THEN st
     ELSE IF options.interactive /\ ~isInteractive THEN forChildren(st, depth)
     ELSE IF options.compact /\ isStructural /\ name = "" THEN forChildren(st, depth)
     ELSE forChildren([s1 EXCEPT !.lines = Append(@, line)], depth + 1)

getDuplicateKeysAll(refsByKey) == DOMAIN refsByKey

\* tracker.getDuplicateKeys
getDuplicateKeys(refsByKey) == { k \in DOMAIN refsByKey : Len(refsByKey[k]) > 1 }

\* buildSnapshot(root, options) on the engine's state: the state it leaves and the
\* { tree, refs } it returns
buildSnapshot(engine, root, options) ==
  LET reset == resetRefs(engine)
      scopedRoot ==
        IF options.selector # NotGiven THEN querySelector(options.selector) ELSE NoNode
      from == IF scopedRoot # NoNode THEN scopedRoot ELSE root
      st == processNode([refCounter |-> reset.refCounter, refMap |-> reset.refMap,
                         refs |-> EmptyMap, lines |-> << >>, counts |-> EmptyMap,
                         refsByKey |-> EmptyMap],
                        from, 0, options)
      duplicateKeys == getDuplicateKeys(st.refsByKey)
      \* delete refs[ref].nth for the refs without duplicates
      refs ==
        [r \in DOMAIN st.refs |->
           IF getKey(st.refs[r].role, st.refs[r].name) \in duplicateKeys
           THEN st.refs[r]
           ELSE [selector |-> st.refs[r].selector, role |-> st.refs[r].role,
                 name |-> st.refs[r].name]]
      tree == joinLines(st.lines)
  IN IF Len(st.lines) = 0
     THEN [refCounter |-> st.refCounter, refMap |-> st.refMap,
           tree |-> IF options.interactive THEN Spell("(no interactive elements)")
                    ELSE Spell("(empty)"),
           refs |-> EmptyMap]
     ELSE [refCounter |-> st.refCounter, refMap |-> st.refMap,
           tree |-> IF options.compact THEN compactTree(tree) ELSE tree,
           refs |-> refs]

\* resolveRef: refMap.get(ref) ?? null
resolveRef(map, ref) == GetOr(map, ref, NoNode)

Options ==
  [interactive : BOOLEAN, compact : BOOLEAN, maxDepth : { NoDepth } \cup 0..MaxDepthArg,
   selector : { NotGiven, "li" }]
Refs == { Ref(n) : n \in 1..MaxRef }

\* a call of buildSnapshot(document.body, options)
BuildSnapshot(options) ==
  /\ script = "snapshot-browser"
  /\ \E r \in { buildSnapshot([refCounter |-> refCounter, refMap |-> refMap], Body,
                              options) } :
       /\ refCounter' = r.refCounter
       /\ refMap' = r.refMap
       /\ last' = [NoCall EXCEPT !.op = "buildSnapshot", !.options = options,
                                 !.before = refCounter, !.refs = r.refs,
                                 !.tree = r.tree]
  /\ UNCHANGED << script, parentNode, displayNone, elementCounter, elementMap >>
  /\ UNCHANGED notRefVars

\* a call of resolveRef(ref)
ResolveRef(ref) ==
  /\ script = "snapshot-browser"
  /\ last' = [NoCall EXCEPT !.op = "resolveRef", !.params.ref = ref,
                            !.node = resolveRef(refMap, ref)]
  /\ UNCHANGED << script, parentNode, displayNone, refCounter, refMap, elementCounter,
                  elementMap >>
  /\ UNCHANGED notRefVars

\* the page removes an element from the document (element.remove())
Remove(el) ==
  /\ script # "none"
  /\ el # Body
  /\ parentNode[el] # NoNode
  /\ parentNode' = [parentNode EXCEPT ![el] = NoNode]
  /\ last' = [NoCall EXCEPT !.op = "remove", !.node = el]
  /\ UNCHANGED << script, displayNone, refCounter, refMap, elementCounter, elementMap >>
  /\ UNCHANGED notRefVars

\* -- content.js ----------------------------------------------------------------
\* the tags snapshot() asks querySelectorAll for
interestingTags ==
  { "a", "button", "input", "select", "textarea", "h1", "h2", "h3", "h4", "h5", "h6",
    "p", "span", "div", "li", "td", "th", "img", "video", "audio", "iframe", "form",
    "label" }

\* document.querySelectorAll(interestingTags.join(',')): in document order
querySelectorAll(tags) == SelectSeq(preorder(Body), LAMBDA el : el \in tags)

\* el.innerText: the rendered text of the element and its descendants
RECURSIVE innerText(_)
innerText(el) ==
  LET kids == children(el)
      text[i \in 0..Len(kids)] ==
        IF i = 0 THEN ownText(el)
        ELSE IF kids[i] \in displayNone THEN text[i - 1]
        ELSE text[i - 1] \o innerText(kids[i])
  IN text[Len(kids)]

\* getRef(element) on the content script's state cs (refCounter, elementMap): the
\* ref the map already holds for the element (it holds an element once), or a new one
getRef(cs, element) ==
  LET known == { r \in DOMAIN cs.elementMap : cs.elementMap[r] = element }
      ref == Ref(cs.refCounter + 1)
  IN IF known # { }
     THEN [ref |-> CHOOSE r \in known : TRUE, cs |-> cs]
     ELSE [ref |-> ref,
           cs |-> [refCounter |-> cs.refCounter + 1,
                   elementMap |-> (ref :> element) @@ cs.elementMap]]

\* getElement: elementMap.get(ref), NoNode for undefined
getElement(map, ref) == GetOr(map, ref, NoNode)

\* snapshot(): the state it leaves and the elements it returns
snapshot(cs) ==
  LET allElements == querySelectorAll(interestingTags)
      run[i \in 0..Len(allElements)] ==
        IF i = 0 THEN [cs |-> cs, elements |-> << >>]
        ELSE LET el == allElements[i]
                 got == getRef(run[i - 1].cs, el)
             IN IF ~hasBox(el) THEN run[i - 1]
                ELSE IF el \in displayNone THEN run[i - 1]
                ELSE [cs |-> got.cs,
                      elements |-> Append(run[i - 1].elements,
                                          [ref |-> got.ref, tag |-> el,
                                           text |-> innerText(el)])]
  IN run[Len(allElements)]

NoIdentifierError == "No element identifier provided"
NotFoundError == "Element not found"

\* findElement(params): the element, or NoNode for null, or what it threw
findElement(map, params) ==
  LET el == IF params.ref # NotGiven THEN getElement(map, params.ref) ELSE NoNode
  IN IF el # NoNode THEN [el |-> el, error |-> NoError]
     ELSE IF params.selector # NotGiven
     THEN [el |-> querySelector(params.selector), error |-> NoError]
     ELSE IF params.text # NotGiven
     THEN [el |-> documentEvaluate(params.text), error |-> NoError]
     ELSE [el |-> NoNode, error |-> NoIdentifierError]

\* const el = findElement(params); if (!el) throw new Error('Element not found');
\* then the action on el (it changes nothing the model keeps)
found(map, params) ==
  LET f == findElement(map, params)
  IN IF f.error # NoError THEN [node |-> NoNode, error |-> f.error]
     ELSE IF f.el = NoNode THEN [node |-> NoNode, error |-> NotFoundError]
     ELSE [node |-> f.el, error |-> NoError]

click(map, params) == found(map, params)
fill(map, params) == found(map, params)
typeText(map, params) == found(map, params)
hover(map, params) == found(map, params)

Params ==
  [ref : { NotGiven } \cup Refs, selector : { NotGiven, "h1" },
   text : { NotGiven, "OK" }]

\* chrome.runtime.onMessage for an action on an element: the handler's result, or
\* the message of what it threw, goes to sendResponse
OnMessage(action, params, res) ==
  /\ script = "content"
  /\ last' = [NoCall EXCEPT !.op = action, !.params = params, !.node = res.node,
                            !.error = res.error]
  /\ UNCHANGED << script, parentNode, displayNone, refCounter, refMap, elementCounter,
                  elementMap >>
  /\ UNCHANGED notRefVars

Click(params) == OnMessage("click", params, click(elementMap, params))
Fill(params) == OnMessage("fill", params, fill(elementMap, params))
TypeText(params) == OnMessage("type", params, typeText(elementMap, params))
Hover(params) == OnMessage("hover", params, hover(elementMap, params))

\* chrome.runtime.onMessage for 'snapshot'
Snapshot ==
  /\ script = "content"
  /\ \E r \in { snapshot([refCounter |-> elementCounter, elementMap |-> elementMap]) } :
       /\ elementCounter' = r.cs.refCounter
       /\ elementMap' = r.cs.elementMap
       /\ last' = [NoCall EXCEPT !.op = "snapshot", !.before = elementCounter,
                                 !.elements = r.elements]
  /\ UNCHANGED << script, parentNode, displayNone, refCounter, refMap >>
  /\ UNCHANGED notRefVars

RefInit ==
  /\ CorrIdle
  /\ WireIdle
  /\ TabIdle
  /\ ServerIdle
  /\ script \in { "snapshot-browser", "content" }
  /\ parentNode \in [Elements \ { Body } -> { Body, "li" }]
  /\ parentNode["li"] = Body
  /\ displayNone \in { { "li" }, { "a" } }
  /\ refCounter = 0
  /\ refMap = EmptyMap
  /\ elementCounter = 0
  /\ elementMap = EmptyMap
  /\ last = NoCall

RefNext ==
  \/ \E options \in Options : BuildSnapshot(options)
  \/ \E ref \in Refs : ResolveRef(ref)
  \/ \E el \in Elements : Remove(el)
  \/ Snapshot
  \/ \E params \in Params : Click(params)
  \/ \E params \in Params : Fill(params)
  \/ \E params \in Params : TypeText(params)
  \/ \E params \in Params : Hover(params)

SpecRefs == RefInit /\ [][RefNext]_vars

(***************************************************************************)
(* Functions on their own (script names the function): compactTree and    *)
(* parseRef of snapshot-browser.js, parseCommand of the command protocol,  *)
(* tabSwitch and tabClose of the v2 background worker.  last.arg is the    *)
(* argument, last.out what the call returned.                              *)
(***************************************************************************)
\* null where a string is expected
NullText == << "null" >>

\* parseRef: '@...' without the '@', 'ref=...' without the 'ref=', a string that
\* matches /^e\d+$/ as it is, null otherwise
parseRef(arg) ==
  LET digits == { "0", "1", "2", "3", "4", "5", "6", "7", "8", "9" }
      isRef(s) == Len(s) >= 2 /\ s[1] = "e" /\ \A i \in 2..Len(s) : s[i] \in digits
  IN IF startsWith(arg, << "@" >>) THEN slice(arg, 1)
     ELSE IF startsWith(arg, Spell("ref=")) THEN slice(arg, 4)
     ELSE IF isRef(arg) THEN arg
     ELSE NullText

\* the strings parseRef is called with: a prefix and what follows it
RefArgs ==
  { prefix \o body :
      prefix \in { << >>, << "@" >>, Spell("ref=") },
      body \in { << >>, << "e" >>, << "x" >>, << "e", "1", "x" >>, << "e", "x", "1" >> }
               \cup { << "e" >> \o Decimal(n) : n \in 1..MaxRef }
               \cup { << "e" >> \o Decimal(n) \o Decimal(n) : n \in 1..MaxRef } }

\* the lines processNode writes in compact mode: a content node without a name, a
\* node with a name and no ref (<img alt="OK">, <img alt="a:b">), a node with a ref
LineKinds == { "listitem", "img", "img:", "button" }

\* the trees compactTree is called with: up to MaxLines lines, the first at depth 0,
\* each at most one level deeper than the line before it, refs numbered in order
RECURSIVE Shapes(_)
Shapes(n) ==
  IF n = 0 THEN { << >> }
  ELSE LET shorter == Shapes(n - 1)
       IN shorter \cup
            { Append(s, [depth |-> d, kind |-> k]) :
                s \in { t \in shorter : Len(t) = n - 1 },
                d \in 0..MaxDepthArg, k \in LineKinds }

TreeOf(shape) ==
  LET refsBefore(i) == Cardinality({ j \in 1..i : shape[j].kind = "button" })
      line(i) ==
        CASE shape[i].kind = "listitem" ->
               renderLine(shape[i].depth, Spell("listitem"), << >>, << >>, 0, << >>)
          [] shape[i].kind = "img" ->
               renderLine(shape[i].depth, Spell("img"), Spell("OK"), << >>, 0, << >>)
          [] shape[i].kind = "img:" ->
               renderLine(shape[i].depth, Spell("img"), Spell("a:b"), << >>, 0, << >>)
          [] shape[i].kind = "button" ->
               renderLine(shape[i].depth, Spell("button"), Spell("OK"),
                          << "e" >> \o Decimal(refsBefore(i)), 0, << >>)
  IN joinLines([i \in 1..Len(shape) |-> line(i)])

Trees ==
  { TreeOf(s) :
      s \in { t \in Shapes(MaxLines) :
                /\ Len(t) >= 1
                /\ t[1].depth = 0
                /\ \A i \in 2..Len(t) : t[i].depth <= t[i - 1].depth + 1 } }

\* -- parseCommand: the command schema and its validation -------------------------
\* A JSON value: its type, its text (of a string or a number) and its fields (of
\* an object).  NotJson is a text JSON.parse throws on; JsonUndefined an absent value.
Json(t, text, fields) == [t |-> t, text |-> text, fields |-> fields]
NotJson == Json("invalid", "", EmptyMap)
JsonUndefined == Json("undefined", "", EmptyMap)
JsonNull == Json("null", "null", EmptyMap)
JsonString(s) == Json("string", s, EmptyMap)
JsonNumber(digits) == Json("number", digits, EmptyMap)
JsonObject(fields) == Json("object", "", fields)

\* json[key] of an object
Field(json, key) == GetOr(json.fields, key, JsonUndefined)

\* String(value)
String(v) ==
  CASE v.t = "object" -> "[object Object]"
    [] v.t = "undefined" -> "undefined"
    [] OTHER -> v.text

\* util.joinValues: 'a' | 'b' | 'c'
joinValues(values) ==
  LET run[i \in 0..Len(values)] ==
        IF i = 0 THEN ""
        ELSE run[i - 1] \o (IF i = 1 THEN "" ELSE " | ") \o "'" \o values[i] \o "'"
  IN run[Len(values)]

\* the field schemas: z.string() with .min(n), z.literal(v), z.enum(values)
zString(min, optional) ==
  [type |-> "string", min |-> min, values |-> << >>, optional |-> optional]
zLiteral(value) ==
  [type |-> "literal", min |-> 0, values |-> << value >>, optional |-> FALSE]
zEnum(values, optional) ==
  [type |-> "enum", min |-> 0, values |-> values, optional |-> optional]

\* a schema is the sequence of its keys with their field schemas
baseCommandSchema ==
  << [key |-> "id", schema |-> zString(0, FALSE)],
     [key |-> "action", schema |-> zString(0, FALSE)] >>

\* baseCommandSchema.extend({ action: z.literal(...), ... })
extend(base, action, more) ==
  [i \in 1..Len(base) |->
     IF base[i].key = "action" THEN [key |-> "action", schema |-> zLiteral(action)]
     ELSE base[i]] \o more

navigateSchema ==
  extend(baseCommandSchema, "navigate",
         << [key |-> "url", schema |-> zString(1, FALSE)],
            [key |-> "waitUntil",
             schema |-> zEnum(<< "load", "domcontentloaded", "networkidle" >>, TRUE)] >>)

frameSchema ==
  extend(baseCommandSchema, "frame",
         << [key |-> "selector", schema |-> zString(1, TRUE)],
            [key |-> "name", schema |-> zString(0, TRUE)],
            [key |-> "url", schema |-> zString(0, TRUE)] >>)

mainframeSchema == extend(baseCommandSchema, "mainframe", << >>)

\* the discriminator values of commandSchema, in the order of the union
commandActions ==
  << "launch", "navigate", "click", "type", "fill", "check", "uncheck", "upload",
     "dblclick", "focus", "drag", "frame", "mainframe", "getbyrole", "getbytext",
     "getbylabel", "getbyplaceholder", "press", "screenshot", "snapshot", "evaluate",
     "wait", "scroll", "select", "hover", "content", "close", "tab_new", "tab_list",
     "tab_switch", "tab_close", "window_new", "cookies_get", "cookies_set",
     "cookies_clear", "storage_get", "storage_set", "storage_clear", "dialog", "pdf" >>

\* the option of commandSchema for an action (of the actions the inputs use)
commandSchema(action) ==
  CASE action = "navigate" -> navigateSchema
    [] action = "frame" -> frameSchema
    [] action = "mainframe" -> mainframeSchema

\* the issues of one value against its field schema: the messages of zod's
\* default error map
fieldIssues(schema, v) ==
  IF v.t = "undefined"
  THEN IF schema.optional THEN << >> ELSE << "Required" >>
  ELSE CASE schema.type = "string" ->
              IF v.t # "string" THEN << "Expected string, received " \o v.t >>
              ELSE IF schema.min = 1 /\ v.text = ""
              THEN << "String must contain at least 1 character(s)" >>
              ELSE << >>
         [] schema.type = "literal" ->
              IF v = JsonString(schema.values[1]) THEN << >>
              ELSE << "Invalid literal value, expected \"" \o schema.values[1] \o "\"" >>
         [] schema.type = "enum" ->
              IF v.t # "string"
              THEN << "Expected " \o joinValues(schema.values) \o ", received " \o v.t >>
              ELSE IF \E i \in 1..Len(schema.values) : schema.values[i] = v.text
              THEN << >>
              ELSE << "Invalid enum value. Expected " \o joinValues(schema.values)
                        \o ", received '" \o v.text \o "'" >>

\* the data of a z.object parse: the keys of the schema the value has, every other
\* key stripped
objectData(schema, json) ==
  [k \in { schema[i].key : i \in 1..Len(schema) } \cap DOMAIN json.fields |->
     json.fields[k]]

objectIssuesFirstOnly(schema, json) ==
  LET failing == SelectSeq(schema, LAMBDA e :
                             fieldIssues(e.schema, Field(json, e.key)) # << >>)
  IN IF failing = << >> THEN << >>
     ELSE << [path |-> failing[1].key,
              message |-> fieldIssues(failing[1].schema,
                                      Field(json, failing[1].key))[1]] >>

\* z.object(...).safeParse on an object: the issues in the order of the keys
objectIssues(schema, json) ==
  LET run[i \in 0..Len(schema)] ==
        IF i = 0 THEN << >>
        ELSE run[i - 1] \o
             LET fails == fieldIssues(schema[i].schema, Field(json, schema[i].key))
             IN [j \in 1..Len(fails) |-> [path |-> schema[i].key, message |-> fails[j]]]
  IN run[Len(schema)]

\* commandSchema.safeParse(json): z.discriminatedUnion('action', [...])
safeParse(json) ==
  IF json.t # "object"
  THEN [success |-> FALSE, data |-> EmptyMap,
        errors |-> << [path |-> "", message |-> "Expected object, received " \o json.t] >>]
  ELSE LET discriminator == Field(json, "action")
           known == /\ discriminator.t = "string"
                    /\ \E i \in 1..Len(commandActions) :
                          commandActions[i] = discriminator.text
       IN IF ~known
          THEN [success |-> FALSE, data |-> EmptyMap,
                errors |-> << [path |-> "action",
                               message |-> "Invalid discriminator value. Expected "
                                             \o joinValues(commandActions)] >>]
          ELSE LET option == commandSchema(discriminator.text)
                   issues == objectIssues(option, json)
               IN IF issues # << >>
                  THEN [success |-> FALSE, data |-> EmptyMap, errors |-> issues]
                  ELSE [success |-> TRUE, data |-> objectData(option, json),
                        errors |-> << >>]

\* errors.map(e => `${e.path.join('.')}: ${e.message}`).join(', ')
joinErrors(errors) ==
  LET run[i \in 0..Len(errors)] ==
        IF i = 0 THEN ""
        ELSE run[i - 1] \o (IF i = 1 THEN "" ELSE ", ")
               \o errors[i].path \o ": " \o errors[i].message
  IN run[Len(errors)]

\* parseCommand(input); json is what JSON.parse makes of the input
parseCommand(json) ==
  IF json = NotJson
  THEN [success |-> FALSE, error |-> "Invalid JSON", id |-> JsonUndefined,
        command |-> EmptyMap]
  ELSE LET id == IF json.t = "object" /\ "id" \in DOMAIN json.fields
                 THEN JsonString(String(json.fields["id"]))
                 ELSE JsonUndefined
           result == safeParse(json)
       IN IF ~result.success
          THEN [success |-> FALSE,
                error |-> "Validation error: " \o joinErrors(result.errors),
                id |-> id, command |-> EmptyMap]
          ELSE [success |-> TRUE, error |-> NoError, id |-> JsonUndefined,
                command |-> result.data]

\* the inputs of parseCommand: a text that is no JSON, JSON values that are no
\* object, and objects that have or lack each of these fields with these values
FieldValues ==
  [id |-> { JsonUndefined, JsonString("r1"), JsonNumber("5") },
   action |-> { JsonUndefined, JsonString("navigate"), JsonString("frame"),
                JsonString("mainframe"), JsonString("bogus") },
   url |-> { JsonUndefined, JsonString(""), JsonString("u"), JsonNumber("5") },
   waitUntil |-> { JsonUndefined, JsonString("load"), JsonString("x") },
   extra |-> { JsonUndefined, JsonString("1") }]

Inputs ==
  { NotJson, JsonNull, JsonNumber("5") } \cup
  { JsonObject([k \in { k \in DOMAIN f : f[k] # JsonUndefined } |-> f[k]]) :
      f \in [id : FieldValues.id, action : FieldValues.action, url : FieldValues.url,
             waitUntil : FieldValues.waitUntil, extra : FieldValues.extra] }

\* a call of parseCommand(input)
ParseCommand ==
  /\ script = "parseCommand"
  /\ last.op = "none"
  /\ last' = [last EXCEPT !.op = "parseCommand", !.out = parseCommand(last.arg)]
  /\ UNCHANGED << script, parentNode, displayNone, refCounter, refMap, elementCounter,
                  elementMap >>
  /\ UNCHANGED notRefVars

\* -- the v2 background worker: tabSwitch and tabClose ------------------------------
\* a field a message does not have, a tab that is not there
NoArg == 0 - 1
\* numbers below this are taken for an index (switchTab, closeTab)
IndexLimit == 1000
NoTabError == "No tab with id"
InvalidIndex == "Invalid index"

\* a || b of two numbers that may be absent
OrElse(a, b) == IF a # NoArg /\ a # 0 THEN a ELSE b

\* the tab chrome.tabs.update / chrome.tabs.remove acts on for a tab id: that tab,
\* the selected tab if the id is left out, an error if there is no such tab
chromeTab(tabs, active, tabId) ==
  IF tabId = NoArg THEN [tab |-> active, error |-> NoError]
  ELSE IF tabId \in Range(tabs) THEN [tab |-> tabId, error |-> NoError]
  ELSE [tab |-> NoArg, error |-> NoTabError]

\* switchTab(idOrIndex) on the tabs chrome.tabs.query({}) lists: the tab activated
switchTab(tabs, active, idOrIndex) ==
  IF idOrIndex # NoArg /\ idOrIndex < IndexLimit
  THEN IF idOrIndex < 0 \/ idOrIndex >= Len(tabs)
       THEN [tab |-> NoArg, error |-> InvalidIndex]
       ELSE chromeTab(tabs, active, tabs[idOrIndex + 1])
  ELSE chromeTab(tabs, active, idOrIndex)

\* closeTab(idOrIndex): the tab removed
closeTabById(tabs, active, idOrIndex) ==
  IF idOrIndex = NoArg THEN chromeTab(tabs, active, active)
  ELSE IF idOrIndex < IndexLimit
  THEN IF idOrIndex < 0 \/ idOrIndex >= Len(tabs)
       THEN [tab |-> NoArg, error |-> InvalidIndex]
       ELSE chromeTab(tabs, active, tabs[idOrIndex + 1])
  ELSE chromeTab(tabs, active, idOrIndex)

\* the tab ids of the browser, and the lists of open tabs
TabIds == { 2, 5, IndexLimit, IndexLimit + 1 }
TabLists ==
  { t \in UNION { [1..n -> TabIds] : n \in 1..MaxTabs } :
      \A i, j \in DOMAIN t : i # j => t[i] # t[j] }

\* the tabSwitch and tabClose messages: tabId and index, each present or not
TabRequests ==
  { [tabs |-> t, active |-> a, tabId |-> id, index |-> i] :
      t \in TabLists, a \in TabIds, id \in TabIds \cup { NoArg },
      i \in (0..MaxTabs) \cup { NoArg } }

\* handleMessage, case 'tabSwitch': switchTab(msg.tabId || msg.index)
TabSwitchMessage ==
  /\ script = "tabSwitch"
  /\ last.op = "none"
  /\ last' = [last EXCEPT !.op = "tabSwitch",
                          !.out = switchTab(last.arg.tabs, last.arg.active,
                                            OrElse(last.arg.tabId, last.arg.index))]
  /\ UNCHANGED << script, parentNode, displayNone, refCounter, refMap, elementCounter,
                  elementMap >>
  /\ UNCHANGED notRefVars

\* handleMessage, case 'tabClose': closeTab(msg.tabId || msg.index)
TabCloseMessage ==
  /\ script = "tabClose"
  /\ last.op = "none"
  /\ last' = [last EXCEPT !.op = "tabClose",
                          !.out = closeTabById(last.arg.tabs, last.arg.active,
                                               OrElse(last.arg.tabId, last.arg.index))]
  /\ UNCHANGED << script, parentNode, displayNone, refCounter, refMap, elementCounter,
                  elementMap >>
  /\ UNCHANGED notRefVars

\* a call of compactTree(tree)
CompactTree ==
  /\ script = "compactTree"
  /\ last.op = "none"
  /\ last' = [last EXCEPT !.op = "compactTree", !.out = compactTree(last.arg)]
  /\ UNCHANGED << script, parentNode, displayNone, refCounter, refMap, elementCounter,
                  elementMap >>
  /\ UNCHANGED notRefVars

\* a call of parseRef(arg)
ParseRef ==
  /\ script = "parseRef"
  /\ last.op = "none"
  /\ last' = [last EXCEPT !.op = "parseRef", !.out = parseRef(last.arg)]
  /\ UNCHANGED << script, parentNode, displayNone, refCounter, refMap, elementCounter,
                  elementMap >>
  /\ UNCHANGED notRefVars

TextInit ==
  /\ CorrIdle
  /\ WireIdle
  /\ TabIdle
  /\ ServerIdle
  /\ script \in { "compactTree", "parseRef", "parseCommand", "tabSwitch", "tabClose" }
  /\ parentNode = EmptyMap
  /\ displayNone = { }
  /\ refCounter = 0
  /\ refMap = EmptyMap
  /\ elementCounter = 0
  /\ elementMap = EmptyMap
  /\ \E arg \in CASE script = "compactTree" -> Trees
                   [] script = "parseRef" -> RefArgs
                   [] script = "parseCommand" -> Inputs
                   [] script \in { "tabSwitch", "tabClose" } ->
                        { r \in TabRequests : r.active \in Range(r.tabs) } :
        last = [NoCall EXCEPT !.arg = arg]

TextNext ==
  CompactTree \/ ParseRef \/ ParseCommand \/ TabSwitchMessage \/ TabCloseMessage

SpecText == TextInit /\ [][TextNext]_vars

(***************************************************************************)
(* Claims about the correlators.                                           *)
(***************************************************************************)
Pending == Range(pendingRequests)
Replies == Requests \cup { UnknownId, NoId }
IdMatched == sys \in { "host", "v2" }

C1_Inv ==
  IdMatched =>
    \A r \in Requests :
      /\ Len(settle[r]) <= 1
      /\ r \in Pending => r < nextId /\ settle[r] = << >>
      /\ (r < nextId /\ r \notin Pending) => Len(settle[r]) = 1
      /\ \A k \in DOMAIN settle[r] :
           \/ settle[r][k].how = "reply" /\ settle[r][k].by = r
           \/ settle[r][k].how \in { "timeout", "notConnected" }

C1_Step ==
  IdMatched =>
    /\ \A i \in Replies :
         lastEvent' = Event("reply", i) =>
           IF i \in Pending
           THEN /\ Range(pendingRequests') = Pending \ { i }
                /\ Len(settle'[i]) = 1
                /\ settle'[i][1].by = i
                /\ \A r \in Requests \ { i } : settle'[r] = settle[r]
           ELSE pendingRequests' = pendingRequests /\ settle' = settle
    /\ \A r \in Requests :
         /\ (settle'[r] # settle[r] /\ r \in Pending) => r \notin Range(pendingRequests')
         /\ (r \in Pending /\ r \notin Range(pendingRequests')) =>
              /\ Len(settle'[r]) = 1
              /\ \A q \in Requests \ { r } : settle'[q] = settle[q]
         /\ (settle'[r] # settle[r] /\ r \notin Pending) =>
              settle'[r] = << Outcome("notConnected", NoId) >>

\* C1: in the id-matched correlators (native host, MCP server v2) every registered
\* request is settled exactly once, by the first reply carrying its id or by its
\* timeout, and its pending entry is removed in that same step; a reply whose id has
\* no pending entry settles nothing and leaves the pending entries as they are.
C1_SettledExactlyOnce == [](C1_Inv) /\ [][C1_Step]_vars

\* C1 witness: a late reply for a request that already timed out arrived while
\* another request was still pending
C1_Witness ==
  /\ sys = "v2"
  /\ lastEvent.op = "reply" /\ lastEvent.id \in Requests
  /\ settle[lastEvent.id] = << Outcome("timeout", NoId) >>
  /\ Pending # { }

\* C2: in NativeHostConnection a reply settles only the request it answers.
C2_ReplySettlesItsOwnRequest ==
  sys = "mcp" =>
    \A r \in Requests : \A k \in DOMAIN settle[r] :
      settle[r][k].how = "reply" => settle[r][k].by = r

Increasing(q) == \A j, k \in DOMAIN q : j < k => q[j] < q[k]
Count(q, x) == Cardinality({ k \in DOMAIN q : q[k] = x })
RECURSIVE SumWrites(_, _)
SumWrites(P, x) ==
  IF P = { } THEN 0
  ELSE LET p == CHOOSE p \in P : TRUE IN Count(wire[p], x) + SumWrites(P \ { p }, x)
QueueIds == [k \in DOMAIN messageQueue |-> messageQueue[k].id]

C3_Inv ==
  sys = "host" =>
    /\ Increasing(QueueIds)
    /\ \A p \in Peers : Increasing(wire[p])
    /\ \A r \in Requests :
         Count(QueueIds, r) + SumWrites(Peers, r) = (IF r < nextId THEN 1 ELSE 0)

C3_Step ==
  sys = "host" =>
    \A p \in Peers :
      /\ (sock[p] = "none" /\ sock'[p] = "open") =>
           /\ wire'[p] = QueueIds
           /\ Len(lastWrite') = Len(messageQueue)
           /\ messageQueue' = << >>
      /\ Len(wire'[p]) >= Len(wire[p])
      /\ SubSeq(wire'[p], 1, Len(wire[p])) = wire[p]

\* C3: the requests queued while no peer is attached are written to the peer that
\* attaches next, each exactly once and in the order they were issued, before any
\* request issued later; no request is lost (each issued request is in the queue or
\* was written to exactly one peer, exactly once).
C3_QueueFlushedInOrder == [](C3_Inv) /\ [][C3_Step]_vars

\* C3 witness: a peer attached and the flush wrote two queued requests, in order
C3_Witness ==
  /\ sys = "host"
  /\ \E p \in Peers : sock[p] = "open" /\ wire[p] = << 1, 2 >>
  /\ Len(lastWrite) = 2

C4_Safety ==
  \A r \in Requests : \A k \in DOMAIN settle[r] :
    settle[r][k].how = "timeout" => r \notin Pending

C4_Step ==
  \A r \in Requests :
    (settle'[r] # settle[r] /\ settle'[r][Len(settle'[r])].how = "timeout") =>
      \E t \in timers : t.id = r /\ now >= t.set + 30000

\* what has been issued has been settled
AllSettled == \A r \in Requests : (nextId > r) => (settle[r] # << >>)

\* C4: every request issued through sendToExtension, sendToHost or sendCommand is
\* eventually settled, whatever the peer does (a settled request stays settled, so
\* this is: again and again, every request issued so far is settled); a timeout
\* settles it no earlier than 30 s after it was issued, and by then its pending
\* entry is removed.
C4_EventuallySettled ==
  /\ []<>AllSettled
  /\ [](C4_Safety)
  /\ [][C4_Step]_vars

\* C4 witness: a request was settled by its timeout although no peer ever attached
C4_Witness ==
  /\ sys = "host"
  /\ \A p \in Peers : sock[p] = "none"
  /\ \E r \in Requests : settle[r] = << Outcome("timeout", NoId) >>

PrefixMatches(frame) == readUInt32LE(SubSeq(frame, 1, 4)) = Len(frame) - 4

\* C8: every frame the native host writes (to stdout, to the attached peer, in the
\* flush of the queue) has a prefix equal to the number of payload bytes.
C8_PrefixIsByteLength ==
  sys = "host" =>
    /\ \A k \in DOMAIN lastWrite : PrefixMatches(lastWrite[k])
    /\ stdout.last.bytes # << >> => PrefixMatches(stdout.last.bytes)

\* C10: every message the native host writes to stdout in reply to a command
\* carries the id of that command.
C10_ReplyCarriesCommandId ==
  (sys = "host" /\ stdout.last.inReplyTo # NoId) => stdout.last.id = stdout.last.inReplyTo

(***************************************************************************)
(* Claims about the decoders.                                              *)
(***************************************************************************)
IsPrefix(a, b) == Len(a) <= Len(b) /\ SubSeq(b, 1, Len(a)) = a
Consumed == Len(Written(dec, sent)) + (IF over = 0 THEN 0 ELSE 4 + Len(OverPayload)) - Len(stream)
HoldsCompleteFrame(b) == Len(b) >= 4 /\ Len(b) - 4 >= readUInt32LE(b)

\* C5: for every sequence of valid frames and every cut of the byte stream into
\* chunks, the buffering decoders (native host IPC handler, processBuffer, MCP v2
\* socket handler) have handed over exactly the messages of the frames that have
\* arrived completely, once each and in order, and the buffer holds exactly the
\* partial tail; when the whole stream has arrived, the messages handed over are
\* the original ones and the buffer is empty.
C5_RoundTripUnderChunking ==
  (dec \in { "ipc", "processBuffer", "v2sock" } /\ over = 0 /\ ~bad) =>
    /\ IsPrefix(delivered, sent)
    /\ FramesOf(delivered) \o buffer \o stream = FramesOf(sent)
    /\ ~HoldsCompleteFrame(buffer)
    /\ stream = << >> => (delivered = sent /\ buffer = << >>)

\* C5 witness: after a chunk that ended inside a 4-byte prefix, one chunk completed
\* two frames, the second of them with a two-byte character, and all was delivered
C5_Witness ==
  /\ dec = "ipc" /\ over = 0 /\ ~bad
  /\ splitPrefix
  /\ lastCount = 2
  /\ Len(sent) = 2 /\ delivered = sent /\ sent[2].text = << 233 >>
  /\ stream = << >>

\* C6: every complete frame that arrived on the native host's stdin has been passed
\* to handleCommand, once and in order: what was handled is a prefix of what was
\* sent, and once the whole stream has arrived and the loop is back in readMessage,
\* all of it.
C6_EveryFrameHandledOnce ==
  (dec = "stdin" /\ over = 0) =>
    /\ IsPrefix(delivered, sent)
    /\ (stream = << >> /\ rd = "listening") => delivered = sent

\* C7: a frame whose declared length exceeds the ceiling is rejected as soon as its
\* prefix has arrived, and none of its payload bytes is in the decoder's buffer.
C7_OversizeRejectedUnbuffered ==
  (dec \in { "stdin", "ipc", "processBuffer" } /\ over > Ceiling) =>
    /\ Consumed >= 4 => rejects >= 1
    /\ Consumed > 4 => buffer = << >>

\* C9: the v2 MCP server and the v2 host use the same framing in both directions:
\* once all the bytes one side wrote have arrived, the other side has decoded
\* exactly the messages written.
C9_SameFramingBothWays ==
  (dec \in { "v2up", "v2down" } /\ stream = << >>) => delivered = sent

(***************************************************************************)
(* Claims about BrowserManager and executeCommand.                         *)
(***************************************************************************)

\* C11: whatever the manager and the engine do, executeCommand returns one Response
\* carrying the command's id: {id, success: true, data} if no call threw, otherwise
\* {id, success: false, error} with the message of what was thrown; nothing escapes.
C11_OneResponsePerCommand ==
  command # NoCommand =>
    /\ returned.id = command.id
    /\ IF raised = NoError
       THEN returned.success /\ DOMAIN returned = { "id", "success", "data" }
       ELSE returned = [id |-> command.id, success |-> FALSE, error |-> raised]

\* C11 witness: launch threw after the browser was started, and the caller got an
\* error Response with the command's id
C11_Witness ==
  /\ command = [id |-> "c2", action |-> "launch", index |-> NoIndex]
  /\ raised = EngineError
  /\ browser = Live /\ pages = << >>
  /\ returned = [id |-> "c2", success |-> FALSE, error |-> EngineError]

\* the index a tab_close command aims at
Target(c, active) == IF c.index = NoIndex THEN active ELSE c.index
\* the array without its element at integer index x
Without(array, x) ==
  [k \in 1..(Len(array) - 1) |-> IF k <= x \div 2 THEN array[k] ELSE array[k + 1]]

C12_Step ==
  (command'.action = "tab_close" /\ Len(pages) = 1) =>
    /\ ~returned'.success
    /\ raised' # NoError
    /\ pages' = pages /\ nextPage' = nextPage
    /\ activePageIndex' = activePageIndex
    /\ activeFrame' = activeFrame

\* C12: a tab_close command (closeTab) issued while exactly one tab is open is
\* answered with an error and closes nothing: the tab list, the active index and
\* the frame context are after the call what they were before.
C12_LastTabCloseRejected == [][C12_Step]_vars

\* C12 witness: closeTab() was refused for the only tab, whose frame is selected
C12_Witness ==
  /\ command.action = "tab_close" /\ command.index = NoIndex
  /\ raised = LastTabError /\ ~returned.success
  /\ Len(pages) = 1 /\ activePageIndex = 0
  /\ activeFrame = pages[1].id

\* C13: as long as only integer indexes were passed, whenever a tab is open the
\* active index is an integer i with 0 <= i < number of tabs.
C13_ActiveIndexInRange ==
  (~fractional /\ Len(pages) >= 1) =>
    /\ IsInteger(activePageIndex)
    /\ 0 <= activePageIndex /\ activePageIndex < H(Len(pages))

\* C13 witness: closeTab() closed the active tab, which was the last of three
C13_Witness ==
  /\ ~fractional
  /\ command.action = "tab_close" /\ command.index = NoIndex
  /\ returned.success /\ returned.data.closed = H(2)
  /\ Len(pages) = 2 /\ activePageIndex = H(1)

C14_Step ==
  (/\ command'.action = "tab_close" /\ returned'.success
   /\ At(pages, activePageIndex) # Undefined) =>
    LET a == activePageIndex
        t == Target(command', a)
        n == Len(pages)
    IN /\ n >= 2 /\ IsInteger(t)
       /\ pages' = Without(pages, t)
       /\ At(pages', activePageIndex') =
            (IF t # a THEN At(pages, a)
             ELSE IF a = H(n - 1) THEN At(pages, a - H(1))
             ELSE At(pages, a + H(1)))

\* C14: after a successful closeTab(t) on n >= 2 tabs whose active index a denotes a
\* tab, the remaining tabs keep their order and the active tab is determined: for
\* t = a the page that was at a + 1, or at a - 1 when a was the last index; for
\* t # a the page that was active before.
C14_ActiveTabAfterClose == [][C14_Step]_vars

\* C14 witness: of three tabs with the third active, the first was closed; the
\* third page is still the active one, now at index 1
C14_Witness ==
  /\ command.action = "tab_close" /\ command.index = H(0) /\ returned.success
  /\ Len(pages) = 2 /\ activePageIndex = H(1)
  /\ pages[2].id = 3 /\ pages[1].id = 2

\* C15: isLaunched() implies that a tab exists.
C15_LaunchedHasTab == browser # NoBrowser => Len(pages) >= 1

C16_Step ==
  (command'.action = "tab_switch" /\ command'.index >= 0) =>
    /\ At(pages, command'.index) = Undefined =>
         /\ ~returned'.success
         /\ activePageIndex' = activePageIndex
         /\ pages' = pages
    /\ returned'.success => At(pages', activePageIndex') # Undefined

\* C16: a tab_switch whose index passes the schema (a non-negative number) but
\* denotes no tab (too large, or not an integer) is answered with an error and
\* leaves the active index and the tab list as they were; after a successful
\* tab_switch the active index denotes a tab.
C16_BadSwitchChangesNothing == [][C16_Step]_vars

(***************************************************************************)
(* Claims about the page: refs of the snapshot engine and the content      *)
(* script.                                                                 *)
(***************************************************************************)
\* C17: resolveRef returns a node only if the node is in the document at the time
\* of the call; for a ref whose node has been removed it returns null, and a node it
\* returns is the one the current snapshot assigned to the ref.
C17_ResolveRefAttachedOnly ==
  last.op = "resolveRef" =>
    LET ref == last.params.ref
    IN /\ last.node # NoNode => isConnected(last.node)
       /\ (ref \in DOMAIN refMap /\ ~isConnected(refMap[ref])) => last.node = NoNode
       /\ last.node # NoNode => (ref \in DOMAIN refMap /\ refMap[ref] = last.node)

\* C18: click, fill, type or hover with a ref that does not resolve fails with an
\* error and acts on no element, whatever selector or text the request also carries.
C18_UnresolvedRefFails ==
  (/\ last.op \in { "click", "fill", "type", "hover" }
   /\ last.params.ref # NotGiven
   /\ getElement(elementMap, last.params.ref) = NoNode) =>
    /\ last.error # NoError
    /\ last.node = NoNode

\* C19: right after a snapshot, a ref that resolves is one the new snapshot issued,
\* and it resolves to the node the new snapshot gave it; so a ref of an earlier
\* snapshot that the new one did not issue again is not found.  For buildSnapshot /
\* resolveRef and for the content script's snapshot / getElement.
C19_EarlierRefsInvalidated ==
  /\ last.op = "buildSnapshot" =>
       \A r \in DOMAIN refMap :
          /\ r \in DOMAIN last.refs
          /\ last.refs[r].role = getRole(refMap[r])
          /\ last.refs[r].name = getAccessibleName(refMap[r])
  /\ last.op = "snapshot" =>
       \A r \in DOMAIN elementMap :
          \E i \in 1..Len(last.elements) :
             /\ last.elements[i].ref = r
             /\ last.elements[i].tag = elementMap[r]

\* the element a snapshot with options o starts from
RootOf(o) ==
  IF o.selector # NotGiven /\ querySelector(o.selector) # NoNode
  THEN querySelector(o.selector)
  ELSE Body

\* the ref-bearing nodes below and including node, in depth-first pre-order
RECURSIVE Bearing(_, _, _)
Bearing(node, depth, o) ==
  LET role == getRole(node)
      name == getAccessibleName(node)
      kids == children(node)
      below(d) ==
        LET all[i \in 0..Len(kids)] ==
              IF i = 0 THEN << >> ELSE all[i - 1] \o Bearing(kids[i], d, o)
        IN all[Len(kids)]
  IN IF ~isVisible(node) \/ (o.maxDepth # NoDepth /\ depth > o.maxDepth) THEN << >>
     ELSE IF \/ o.interactive /\ role \notin INTERACTIVE_ROLES
             \/ o.compact /\ role \in STRUCTURAL_ROLES /\ name = ""
     THEN below(depth)
     ELSE (IF role \in INTERACTIVE_ROLES \/ (role \in CONTENT_ROLES /\ name # "")
           THEN << node >> ELSE << >>) \o below(depth + 1)

\* C20: a buildSnapshot call assigns exactly e1 .. ek to the k ref-bearing nodes in
\* depth-first pre-order, starting from e1 whatever was assigned before; calling it
\* again on the unchanged tree with the same options returns the same refs.
C20_RefsSequentialFromOne ==
  last.op = "buildSnapshot" =>
    LET b == Bearing(RootOf(last.options), 0, last.options)
        again == buildSnapshot([refCounter |-> refCounter, refMap |-> refMap], Body,
                               last.options)
    IN /\ refCounter = Len(b)
       /\ DOMAIN last.refs = { Ref(i) : i \in 1..Len(b) }
       /\ DOMAIN refMap = DOMAIN last.refs
       /\ \A i \in 1..Len(b) :
             /\ refMap[Ref(i)] = b[i]
             /\ last.refs[Ref(i)].role = getRole(b[i])
             /\ last.refs[Ref(i)].name = getAccessibleName(b[i])
       /\ again.refs = last.refs
       /\ again.refMap = refMap

\* C20 witness: a snapshot had assigned e1, e2, e3; <button> was removed, and the next
\* snapshot assigned e1 to <li> and e2 to <h1>
C20_Witness ==
  /\ last.op = "buildSnapshot"
  /\ last.before = 3
  /\ parentNode["button"] = NoNode
  /\ DOMAIN last.refs = { "e1", "e2" }
  /\ refMap["e1"] = "li" /\ refMap["e2"] = "h1"
  /\ last.refs["e2"].role = "heading" /\ last.refs["e2"].name = "Title"

\* the (role, name) pair of a node
Pair(node) == << getRole(node), getAccessibleName(node) >>

\* C21: in the refs buildSnapshot returns, the entries of a (role, name) pair that
\* k >= 2 ref-bearing nodes carry have nth = 0, 1, ..., k - 1 in traversal order, and
\* the entry of a pair that one ref-bearing node carries has no nth field.
C21_NthNumbersDuplicates ==
  last.op = "buildSnapshot" =>
    LET b == Bearing(RootOf(last.options), 0, last.options)
        same(i) == { j \in 1..Len(b) : Pair(b[j]) = Pair(b[i]) }
    IN \A i \in 1..Len(b) :
          LET entry == last.refs[Ref(i)]
          IN IF Cardinality(same(i)) >= 2
             THEN /\ "nth" \in DOMAIN entry
                  /\ entry.nth = Cardinality({ j \in same(i) : j < i })
             ELSE "nth" \notin DOMAIN entry

\* C21 witness: two buttons named OK got nth 0 and 1, the heading between them none
C21_Witness ==
  /\ last.op = "buildSnapshot"
  /\ DOMAIN last.refs = { "e1", "e2", "e3" }
  /\ refMap = ("e1" :> "button") @@ ("e2" :> "h1") @@ ("e3" :> "a")
  /\ last.refs["e1"].nth = 0
  /\ last.refs["e3"].nth = 1
  /\ DOMAIN last.refs["e2"] = { "selector", "role", "name" }

\* the lines of the returned tree that carry the ref e<i>
LinesOf(i) ==
  LET lines == splitLines(last.tree)
      tag == Spell(" [ref=") \o << "e" >> \o Decimal(i) \o << "]" >>
  IN { lines[k] : k \in { k \in 1..Len(lines) : includes(lines[k], tag) } }

NthTag(k) == Spell(" [nth=") \o Decimal(k) \o << "]" >>

\* C22, as claimed: the line of a ref contains [nth=K] exactly when the entry returned
\* for the ref has nth = K, and no [nth when the entry has no nth.
C22_TreeAndRefsAgreeOnNth ==
  (last.op = "buildSnapshot" /\ last.refs # EmptyMap) =>
    \A i \in 1..refCounter :
       LET entry == last.refs[Ref(i)]
       IN /\ Cardinality(LinesOf(i)) = 1
          /\ \A line \in LinesOf(i) :
                IF "nth" \in DOMAIN entry
                THEN includes(line, NthTag(entry.nth))
                ELSE ~includes(line, Spell(" [nth="))

\* C22, amended: the line of a ref contains [nth=K] exactly when the entry returned
\* for the ref has nth = K with K > 0; it contains no [nth when the entry has no nth
\* or has nth = 0.
C22_TreeShowsPositiveNth ==
  (last.op = "buildSnapshot" /\ last.refs # EmptyMap) =>
    \A i \in 1..refCounter :
       LET entry == last.refs[Ref(i)]
       IN /\ Cardinality(LinesOf(i)) = 1
          /\ \A line \in LinesOf(i) :
                IF "nth" \in DOMAIN entry /\ entry.nth > 0
                THEN includes(line, NthTag(entry.nth))
                ELSE ~includes(line, Spell(" [nth="))

\* C22 witness: in a compact snapshot the second OK button's line shows [nth=1] and
\* the first one's line, whose entry has nth = 0, shows none
C22_Witness ==
  /\ last.op = "buildSnapshot" /\ last.options.compact
  /\ "e1" \in DOMAIN last.refs /\ "e2" \in DOMAIN last.refs
  /\ last.refs["e1"].role = "button" /\ "nth" \in DOMAIN last.refs["e1"]
  /\ last.refs["e1"].nth = 0
  /\ "nth" \in DOMAIN last.refs["e2"] /\ last.refs["e2"].nth = 1
  /\ \A line \in LinesOf(1) : ~includes(line, Spell(" [nth="))
  /\ \A line \in LinesOf(2) : includes(line, NthTag(1))

\* C23: compactTree removes a line if and only if the line carries no ref, carries no
\* rendered name or text, and none of its descendant lines (the following lines with
\* a deeper indent, up to the first line whose indent is not deeper) carries a ref;
\* every other line is kept, in the original order.
C23_CompactTreeDropsOnlyEmptyBranches ==
  last.op = "compactTree" =>
    LET lines == splitLines(last.arg)
        indent(i) ==
          Cardinality({ k \in 1..Len(lines[i]) :
                          \A j \in 1..k : lines[i][j] = " " }) \div 2
        carriesRef(i) == includes(lines[i], Spell("[ref="))
        carriesName(i) == includes(lines[i], << "\"" >>)
        descendants(i) ==
          { j \in (i + 1)..Len(lines) : \A k \in (i + 1)..j : indent(k) > indent(i) }
        removed(i) ==
          /\ ~carriesRef(i)
          /\ ~carriesName(i)
          /\ \A j \in descendants(i) : ~carriesRef(j)
        expected[i \in 0..Len(lines)] ==
          IF i = 0 THEN << >>
          ELSE IF removed(i) THEN expected[i - 1]
          ELSE Append(expected[i - 1], lines[i])
    IN last.out = joinLines(expected[Len(lines)])

\* C26: parseRef returns 'eN' for '@eN', 'ref=eN' and 'eN' (N one or more decimal
\* digits) and null for every other string, also for one that starts with '@' or
\* 'ref=' and does not continue with e and digits; so the three forms of a ref resolve
\* to the same node.
C26_ParseRefAcceptsThreeForms ==
  last.op = "parseRef" =>
    LET digits == { "0", "1", "2", "3", "4", "5", "6", "7", "8", "9" }
        isRef(s) == Len(s) >= 2 /\ s[1] = "e" /\ \A i \in 2..Len(s) : s[i] \in digits
        forms(ref) == { ref, << "@" >> \o ref, Spell("ref=") \o ref }
        refs == { << "e" >> \o Decimal(n) : n \in 1..(10 * MaxRef + MaxRef) }
    IN IF \E ref \in refs : last.arg \in forms(ref)
       THEN /\ isRef(last.out)
            /\ last.arg \in forms(last.out)
       ELSE last.out = NullText


\* the snapshot of the current document without filtering, from the root and with
\* the depth limit of options o
Unfiltered(o) ==
  buildSnapshot([refCounter |-> refCounter, refMap |-> refMap], Body,
                [o EXCEPT !.interactive = FALSE, !.compact = FALSE])

\* the refs of snapshot u whose node has an interactive role, in the order assigned
InteractiveRefs(u) ==
  SelectSeq([i \in 1..u.refCounter |-> Ref(i)],
            LAMBDA r : getRole(u.refMap[r]) \in INTERACTIVE_ROLES)

\* the entry without its selector: role, name and (where present) nth
Described(entry) == [f \in DOMAIN entry \ { "selector" } |-> entry[f]]

\* C24: without maxDepth, the interactive-only snapshot gives e1, e2, ... to exactly
\* the interactive nodes that have a ref in the unfiltered snapshot, in the same
\* order and with the same role, name and nth, and the compact snapshot assigns
\* the same refs to the same nodes as the unfiltered snapshot.
C24_FilteringKeepsSubtrees ==
  (last.op = "buildSnapshot" /\ last.options.maxDepth = NoDepth) =>
    LET u == Unfiltered(last.options)
        kept == InteractiveRefs(u)
    IN IF last.options.interactive
       THEN /\ refCounter = Len(kept)
            /\ DOMAIN refMap = { Ref(i) : i \in 1..Len(kept) }
            /\ DOMAIN last.refs = DOMAIN refMap
            /\ \A i \in 1..Len(kept) :
                  /\ refMap[Ref(i)] = u.refMap[kept[i]]
                  /\ Described(last.refs[Ref(i)]) = Described(u.refs[kept[i]])
       ELSE last.options.compact =>
              /\ refMap = u.refMap
              /\ DOMAIN last.refs = DOMAIN u.refs
              /\ \A r \in DOMAIN u.refs :
                    Described(last.refs[r]) = Described(u.refs[r])

\* C24 witness: an interactive-only snapshot of <body><li><button>OK</button>
\* <h1>Title</h1></li></body> (the <a> hidden): unfiltered, <li> is e1, the button
\* e2 and the heading e3; the button below the skipped <li> is e1 here
C24_Witness ==
  /\ last.op = "buildSnapshot"
  /\ last.options.interactive /\ last.options.maxDepth = NoDepth
  /\ parentNode["button"] = "li" /\ parentNode["h1"] = "li"
  /\ Unfiltered(last.options).refMap
       = ("e1" :> "li") @@ ("e2" :> "button") @@ ("e3" :> "h1")
  /\ refMap = ("e1" :> "button")

\* the lines of a tree that render a node: '- role ...' after the indentation
NodeLines(tree) ==
  SelectSeq(splitLines(tree), LAMBDA line : includes(line, << "-", " " >>))

\* C25: buildSnapshot never returns the empty string as tree: a rendering without
\* a line (also when the compact pass removed every line) is the placeholder
\* '(no interactive elements)' in interactive-only mode and '(empty)' otherwise,
\* with empty refs.
C25_EmptyTreeIsPlaceholder ==
  last.op = "buildSnapshot" =>
    /\ last.tree # << >>
    /\ NodeLines(last.tree) = << >> =>
         /\ last.tree = IF last.options.interactive
                        THEN Spell("(no interactive elements)") ELSE Spell("(empty)")
         /\ last.refs = EmptyMap


\* the action of a parsed object is one of the actions of commandSchema
KnownAction(json) ==
  /\ Field(json, "action").t = "string"
  /\ \E i \in 1..Len(commandActions) : commandActions[i] = Field(json, "action").text

\* C27: a command with a string id and an action outside the closed action set
\* fails with the same id and the error 'Unknown action: <action>', and is never
\* accepted as a command for a handler.
C27_UnknownActionError ==
  (/\ last.op = "parseCommand"
   /\ last.arg.t = "object"
   /\ Field(last.arg, "id").t = "string"
   /\ Field(last.arg, "action").t = "string"
   /\ ~KnownAction(last.arg)) =>
    /\ ~last.out.success
    /\ last.out.id = Field(last.arg, "id")
    /\ last.out.error = "Unknown action: " \o Field(last.arg, "action").text

\* the issue of an action that is no action of commandSchema
UnknownDiscriminator ==
  [path |-> "action",
   message |-> "Invalid discriminator value. Expected " \o joinValues(commandActions)]

\* the fields of an object that fail validation, with the reason, in the order of
\* the schema: those of the schema of its action, and for an action outside the
\* set the id (if it is no string) and the action
FailingFields(json) ==
  LET schema == IF KnownAction(json) THEN commandSchema(Field(json, "action").text)
                ELSE SubSeq(baseCommandSchema, 1, 1)
      reason(e) == fieldIssues(e.schema, Field(json, e.key))
      failing == SelectSeq(schema, LAMBDA e : reason(e) # << >>)
  IN [i \in 1..Len(failing) |-> [path |-> failing[i].key, message |-> reason(failing[i])[1]]]
       \o (IF KnownAction(json) THEN << >> ELSE << UnknownDiscriminator >>)

\* C28 as stated: an object with an id that fails validation gives success:false
\* with the id of the input and an error listing path and reason of each failing
\* field; a text that is no JSON gives 'Invalid JSON' and no id.
C28_FailureKeepsIdAndListsFields ==
  last.op = "parseCommand" =>
    /\ last.arg = NotJson =>
         /\ ~last.out.success
         /\ last.out.error = "Invalid JSON"
         /\ last.out.id = JsonUndefined
    /\ (last.arg.t = "object" /\ "id" \in DOMAIN last.arg.fields /\ ~last.out.success) =>
         /\ last.out.id = last.arg.fields["id"]
         /\ last.out.error = "Validation error: " \o joinErrors(FailingFields(last.arg))

\* C28: an object with an id that fails validation gives success:false with the
\* id of the input converted to a string (the id itself when it is a string) and
\* an error listing path and reason of each failing field of the schema of its
\* action, or of the action alone when that is no action of the set; a text that
\* is no JSON gives 'Invalid JSON' and no id.
C28_FailureKeepsIdTextAndListsFields ==
  last.op = "parseCommand" =>
    /\ last.arg = NotJson =>
         /\ ~last.out.success
         /\ last.out.error = "Invalid JSON"
         /\ last.out.id = JsonUndefined
    /\ (last.arg.t = "object" /\ "id" \in DOMAIN last.arg.fields /\ ~last.out.success) =>
         /\ last.out.id.t = "string"
         /\ last.out.id.text = String(last.arg.fields["id"])
         /\ Field(last.arg, "id").t = "string" => last.out.id = Field(last.arg, "id")
         /\ last.out.error =
              "Validation error: " \o
                joinErrors(IF KnownAction(last.arg) THEN FailingFields(last.arg)
                           ELSE << UnknownDiscriminator >>)

\* C28 witness: { id: 5, action: 'navigate', url: '' } failed with id '5' and an
\* error that lists id and url
C28_Witness ==
  /\ last.op = "parseCommand"
  /\ last.arg = JsonObject(("id" :> JsonNumber("5")) @@ ("action" :> JsonString("navigate"))
                             @@ ("url" :> JsonString("")))
  /\ last.out.id = JsonString("5")
  /\ last.out.error = "Validation error: id: Expected string, received number, "
                        \o "url: String must contain at least 1 character(s)"

\* C29: a command object with a field its action's schema does not model is
\* rejected: parseCommand returns success:false for it.
C29_UnmodelledFieldRejected ==
  (/\ last.op = "parseCommand"
   /\ last.arg.t = "object"
   /\ KnownAction(last.arg)
   /\ \E k \in DOMAIN last.arg.fields :
         \A i \in 1..Len(commandSchema(Field(last.arg, "action").text)) :
            commandSchema(Field(last.arg, "action").text)[i].key # k) =>
    ~last.out.success


\* C30: while a frame is active (after a successful frame command and until the
\* next mainframe command) every command that acts on an element is issued
\* against the active frame, and otherwise against the main frame of the active
\* page.
C30_ElementCommandsUseActiveFrame ==
  (command.action \in ElementActions /\ issued # NoTarget) =>
    issued = IF activeFrame # NoFrame THEN FrameIn(activeFrame)
             ELSE MainFrameOf(At(pages, activePageIndex).id)


\* C31: the frame context is null or a frame of the active page of the live
\* browser: it is null after close() and a following launch, and it never stays on
\* a frame of a tab that stopped being active.
C31_ActiveFrameOfActivePage ==
  activeFrame # NoFrame =>
    /\ browser # NoBrowser
    /\ At(pages, activePageIndex) # Undefined
    /\ At(pages, activePageIndex).id = activeFrame


\* C32: with two or more clients connected, every response of the browser is
\* written to the connection that sent its request, and the close of one
\* connection never keeps a response from a client that is still connected.
C32_ResponseToItsClient ==
  (lastChrome.type = "response" /\ clients[lastChrome.from] = "open") =>
    lastChrome.to = lastChrome.from


\* C33: a correctly framed payload that is no JSON costs that frame only: once
\* the whole stream has arrived, every well-formed frame that followed the bad one
\* has been decoded and handed over, in order (native host IPC reader, native host
\* stdin loop, MCP server host-stdout reader).
C33_BadFrameCostsOnlyItself ==
  (/\ bad
   /\ dec \in { "ipc", "stdin", "processBuffer" }
   /\ stream = << >> /\ buffer = << >> /\ rd = "listening") =>
    delivered = sent


\* C34: a successful newWindow and a successful newTab append the page at index n
\* (the previous tab count), make it active and return {index: n, total: n + 1};
\* the page of newWindow is in a context no other page uses, the page of newTab
\* in the context of the page that was active when newTab was called.
C34_Step ==
  (command'.action \in { "tab_new", "window_new" } /\ returned'.success) =>
    LET n == Len(pages)
    IN /\ Len(pages') = n + 1
       /\ SubSeq(pages', 1, n) = pages
       /\ activePageIndex' = H(n)
       /\ returned'.data = [index |-> H(n), total |-> n + 1]
       /\ IF command'.action = "window_new"
          THEN \A k \in 1..n : pages[k].ctx # pages'[n + 1].ctx
          ELSE pages'[n + 1].ctx = At(pages, activePageIndex).ctx

C34_NewPageContext == [][C34_Step]_vars


\* C35: a tabSwitch or tabClose request naming a tab by tabId = T acts on the tab
\* whose id is T, whatever the value of T, and a request naming a tab by
\* index = i acts on the i-th tab of the tab list, index 0 included.
C35_TabRequestActsOnNamedTab ==
  (script \in { "tabSwitch", "tabClose" } /\ last.op # "none") =>
    /\ (last.arg.tabId # NoArg /\ last.arg.tabId \in Range(last.arg.tabs)) =>
         last.out = [tab |-> last.arg.tabId, error |-> NoError]
    /\ (/\ last.arg.tabId = NoArg
        /\ last.arg.index # NoArg
        /\ last.arg.index < Len(last.arg.tabs)) =>
         last.out = [tab |-> last.arg.tabs[last.arg.index + 1], error |-> NoError]


\* C36: when the calls of different client connections interleave at the awaits of
\* closeTab and newTab, the tab list is never empty while the browser is live, the
\* active index stays in range, and two overlapping closeTab calls on a two-tab
\* session do not both succeed.
C36_OverlapKeepsTabInvariants ==
  /\ browser # NoBrowser =>
       /\ Len(pages) >= 1
       /\ activePageIndex >= 0 /\ activePageIndex < H(Len(pages))
  /\ \A c, d \in Conns :
       (/\ c # d
        /\ inflight[c].op = "closeTab" /\ inflight[d].op = "closeTab"
        /\ inflight[c].total = 2 /\ inflight[d].total = 2
        /\ c \in inflight[d].during) =>
         ~(inflight[c].settled = "fulfilled" /\ inflight[d].settled = "fulfilled")


\* C37: whenever an accepted peer connection of the native host is still open, the
\* current-peer reference extensionSocket designates an open connection; the close
\* event of an older connection does not clear it.
C37_PeerReferenceIsOpenPeer ==
  (sys = "host" /\ \E p \in Peers : sock[p] = "open") =>
    /\ extensionSocket # NoPeer
    /\ sock[extensionSocket] = "open"


\* C38: in the native host every entry of the message queue has an entry in the
\* pending-request table, so a queued request whose timeout has fired is not
\* written to a peer that attaches later.
C38_QueuedRequestsArePending ==
  sys = "host" =>
    \A k \in 1..Len(messageQueue) : messageQueue[k].id \in Range(pendingRequests)


\* the dialog handlers attached to the open pages
Attached == UNION { listeners[pages[k].id] : k \in 1..Len(pages) }

\* C39: after any sequence of dialog and tab commands at most one dialog handler of
\* the manager is attached across the open pages, and it is the one the most recent
\* dialog command set; after clearDialogHandler no page has one attached.
C39_OneDialogHandlerAttached ==
  /\ Cardinality(Attached) <= 1
  /\ Attached \subseteq { nextHandler - 1 }
  /\ (command.action = "clearDialogHandler" /\ raised = NoError) => Attached = { }


\* C40: after the native host's stdin has reached its end the host eventually leaves
\* its message loop and exits, whether the end came while readMessage was waiting or
\* while a command was being handled.
C40_StdinEndLeadsToExit == stdinEnded ~> hostPc = "exit"

====
